---- MODULE Spec2Model ----
(***************************************************************************)
(* Model of OCLAlgo (Samsung/OCLAlgo): the asynchronous task-dispatch and  *)
(* buffer-lifetime engine built on the OpenCL C++ wrapper, with its        *)
(* program / kernel caches and completion handles.                         *)
(*                                                                         *)
(*   OpenCLQueue::AddTask, cl_future         inc/oclalgo/opencl_queue.h    *)
(*   hblas::Matrix operators on cl_future    inc/oclalgo/hblas/matrix.h    *)
(*   Queue::CreateTask / EnqueueTask         inc/oclalgo/queue.h           *)
(*   Task, KernelArg, oclalgo::future        inc/oclalgo/task.h, ...       *)
(*   DMatrix operators                       inc/oclalgo/dmatrix.h         *)
(*                                                                         *)
(* Arrays are abstracted to one integer of content.  Events are identified *)
(* with the command that owns them; 0 is the null event / null handle.     *)
(***************************************************************************)
EXTENDS Integers, Sequences, FiniteSets, TLC

\* ------------------------------------------------------------ bounds
\* longest argument list handed to Task / AddTask in the binding model
MaxArgs == 3

\* ------------------------------------------------------------ argument kinds
\* enum DataType { IN, OUT, IN_OUT, LOCALE, VAR } and enum class ArgType
DataType == {"IN", "OUT", "IN_OUT", "LOCALE", "VAR"}

\* an argument that is backed by a device buffer (cl_data_t with IN, OUT,
\* IN_OUT; KernelArg<cl::Buffer>)
IsBufferArg(a) == a.io \in {"IN", "OUT", "IN_OUT"}

\* an argument whose content is read back (ReturnOutData's enable_if)
IsOutArg(a) == a.io = "OUT" \/ a.io = "IN_OUT"

VARIABLES
  args,       \* binding model: the argument list under construction; add model: the argument packs dispatched, by call
  task,       \* binding model: the Task built by Task::Task (kernel args, buffers_, output_)
  oclTask,    \* binding model: what OpenCLQueue::AddTask derived from the list
  harr,       \* host storage blocks (shared_array backing stores, stack locals)
  dbuf,       \* device buffers (cl::Buffer memory objects)
  cmds,       \* commands submitted to the command queues, in submission order
  futs,       \* completion handles (cl_future / oclalgo::future objects)
  host,       \* the host thread: idle, blocked in get()/wait(), failed (an exception left get()/wait()), or crashed
  ncalls,     \* number of dispatching API calls made so far
  cache,      \* program / kernel caches (programs_, kernels_) and the last compile request
  ctx,        \* the enumerated platforms and the last queue construction
  dmat,       \* the caller's device matrix (a DMatrix object) and what it was last loaded from
  thr         \* a second host thread, which consumes a handle it was given

bindVars == <<args, task, oclTask, cache, ctx, dmat, thr>>
engineVars == <<harr, dbuf, cmds, futs, host, ncalls>>
vars == <<args, task, oclTask, harr, dbuf, cmds, futs, host, ncalls, cache, ctx, dmat, thr>>

\* ------------------------------------------------------------ Task (task.h)
NoTask == [built |-> FALSE, kargs |-> <<>>, buffers |-> <<>>, output |-> <<>>]

\* Task::SetArg(int index, const T& arg): kernel_.setArg(index, arg.data), then
\* a buffer argument goes to output_ when OUT / IN_OUT and to buffers_ otherwise.
\* The is_same test is an ordinary if, so both push_back(arg.data) statements
\* are compiled for every T: only T = KernelArg<cl::Buffer> instantiates, and
\* a Task is built from buffer arguments only (TaskArgsCompile).
SetArgOutOnlyMut(t, index, arg) ==
  [t EXCEPT !.kargs = Append(@, <<index, arg.data>>),
            !.output = IF IsBufferArg(arg) /\ arg.io = "OUT"
                       THEN Append(@, arg.data) ELSE @,
            !.buffers = IF IsBufferArg(arg) /\ arg.io # "OUT"
                        THEN Append(@, arg.data) ELSE @]

SetArgBothListsMut(t, index, arg) ==
  [t EXCEPT !.kargs = Append(@, <<index, arg.data>>),
            !.output = IF IsBufferArg(arg) /\ IsOutArg(arg)
                       THEN Append(@, arg.data) ELSE @,
            !.buffers = IF IsBufferArg(arg) THEN Append(@, arg.data) ELSE @]

SetArg(t, index, arg) ==
  [t EXCEPT !.kargs = Append(@, <<index, arg.data>>),
            !.output = IF IsBufferArg(arg) /\ IsOutArg(arg)
                       THEN Append(@, arg.data) ELSE @,
            !.buffers = IF IsBufferArg(arg) /\ ~IsOutArg(arg)
                        THEN Append(@, arg.data) ELSE @]

\* the index the variadic recursion hands to the tail: SetArg(++index, args...)
NextIndexSkipMut(index, arg) == IF IsBufferArg(arg) THEN index + 1 ELSE index

NextIndex(index, arg) == index + 1

\* Task::SetArg(int index, const First&, const Tail&...) and SetArg(int)
RECURSIVE SetArgs(_, _, _)
SetArgs(t, index, as) ==
  IF as = <<>> THEN t
  ELSE SetArgs(SetArg(t, index, Head(as)), NextIndex(index, Head(as)), Tail(as))

\* the argument packs Task::Task(kernel, args...) is well-formed for: every
\* argument a KernelArg<cl::Buffer> (IN, OUT, IN_OUT); the empty pack binds
\* nothing through SetArg(int)
TaskArgsCompile(as) == \A i \in 1..Len(as) : IsBufferArg(as[i])

\* Task::Task(kernel, args...): SetArg(0, args...)
TaskCtor(as) == SetArgs([NoTask EXCEPT !.built = TRUE], 0, as)

\* ------------------------------------------------------------ OpenCLQueue binding
\* what one AddTask call did with its argument pack: built tells that
\* SetKernelArgs has bound the pack, kargs and buffers are the setArg calls and
\* the buffers vector, reads the enqueueReadBuffer calls of GetResults, and
\* returned tells that the call returned its handle, tuple being what
\* ComposeOutTuple put in it
NoOclTask == [built |-> FALSE, kargs |-> <<>>, buffers |-> <<>>,
              reads |-> <<>>, tuple |-> <<>>, returned |-> FALSE]

\* OpenCLQueue::SetKernelArgs(argIndex, kernel, buffers, clData): every buffer
\* kind pushes its cl::Buffer and binds it; LOCALE and VAR only bind.
SetKernelArg(o, argIndex, arg) ==
  [o EXCEPT !.kargs = Append(@, <<argIndex, arg.data>>),
            !.buffers = IF IsBufferArg(arg) THEN Append(@, arg.data) ELSE @]

\* the pack overload ends in the one-argument overload (no overload without
\* an argument is defined)
RECURSIVE SetKernelArgs(_, _, _)
SetKernelArgs(o, argIndex, as) ==
  IF Len(as) = 1 THEN SetKernelArg(o, argIndex, Head(as))
  ELSE SetKernelArgs(SetKernelArg(o, argIndex, Head(as)),
                     NextIndex(argIndex, Head(as)), Tail(as))

\* ReturnOutData: std::tuple<> unless DT == OUT || DT == IN_OUT
ReturnOutDataOutOnlyMut(arg) == IF arg.io = "OUT" THEN <<arg.data>> ELSE <<>>

ReturnOutData(arg) == IF IsOutArg(arg) THEN <<arg.data>> ELSE <<>>

\* ComposeOutTuple(data): ReturnOutData(data); ComposeOutTuple(data, args...):
\* std::tuple_cat(ReturnOutData(data), ComposeOutTuple(args...)).  There is no
\* overload for an empty pack.
RECURSIVE ComposeOutTuple(_)
ComposeOutTuple(as) ==
  IF Len(as) = 1 THEN ReturnOutData(Head(as))
  ELSE ReturnOutData(Head(as)) \o ComposeOutTuple(Tail(as))

\* OpenCLQueue::GetResults(argIndex, buffers, event, clData): an OUT / IN_OUT
\* argument is read back from buffers[argIndex] into its own host array.  idx is
\* the 1-based position in the buffers vector that buffers[argIndex] denotes.
GetResult(o, argIndex, arg) ==
  [o EXCEPT !.reads = IF IsOutArg(arg)
                      THEN Append(@, [idx |-> argIndex + 1, dst |-> arg.data])
                      ELSE @]

RECURSIVE GetResults(_, _, _)
GetResults(o, argIndex, as) ==
  IF Len(as) = 1 THEN GetResult(o, argIndex, Head(as))
  ELSE GetResults(GetResult(o, argIndex, Head(as)),
                  NextIndex(argIndex, Head(as)), Tail(as))

\* the argument packs AddTask is well-formed for: its return type is
\* cl_future<decltype(ComposeOutTuple(args...))>, which an empty pack cannot form
AddTaskArgsCompile(as) == as # <<>>

\* what AddTask derives from its argument pack, before anything is submitted:
\* SetKernelArgs(0, ...), GetResults(0, ...), ComposeOutTuple(args...)
AddTaskPlan(as) ==
  [GetResults(SetKernelArgs([NoOclTask EXCEPT !.built = TRUE], 0, as), 0, as)
     EXCEPT !.tuple = ComposeOutTuple(as)]

\* ------------------------------------------------------------ binding model
\* every argument list of length 0..MaxArgs; argument i carries the identity i
ArgLists ==
  UNION {[1..n -> DataType] : n \in 0..MaxArgs}

MakeArgs(kinds) == [i \in 1..Len(kinds) |-> [io |-> kinds[i], data |-> i]]

\* the host program: the queue object it drives (api), the edge of its square
\* matrices (dim), where its thread is, and how many times it has edited one
\* of its hblas matrices (edits)
NoHost == [api |-> "none", dim |-> 1, st |-> "idle", f |-> 0, op |-> "none",
           err |-> "none", edits |-> 0]

EngineIdle ==
  /\ harr = <<>>
  /\ dbuf = <<>>
  /\ cmds = <<>>
  /\ futs = <<>>
  /\ host = NoHost
  /\ ncalls = 0

\* a (source path, compile options) pair; strings are sequences of characters
NoPair == [path |-> <<>>, options |-> <<>>]

\* what the last compile request did (nothing yet)
NoRequest == [pair |-> NoPair, entry |-> <<>>, fresh |-> FALSE, wasOk |-> FALSE,
              wasFailed |-> FALSE,
              built |-> FALSE, result |-> "none", err |-> "none",
              logOf |-> NoPair, logIn |-> "none", newKernel |-> FALSE,
              usedBefore |-> FALSE, kernelOf |-> NoPair, before |-> {}]

\* programs_ and kernels_ are empty after construction.  requested, okPairs,
\* failed and made record the pairs requested, the pairs built successfully,
\* the pairs whose latest request was a failed build and the (program key,
\* entry point) pairs a kernel handle was created for.  bound holds, for each
\* kernel object of kernels_ that AddTask has bound arguments on, the
\* argument values the object holds (what clSetKernelArg stored in it).
NoCache == [api |-> "none", programs |-> {}, kernels |-> {}, nreq |-> 0,
            requested |-> {}, okPairs |-> {}, failed |-> {}, made |-> {},
            bound |-> {}, last |-> NoRequest]

\* the outcome of a constructor call: out is "ok" or the code of the
\* cl::Error thrown or "crash"; oob tells whether a vector was indexed
\* outside its bounds; ids are the zero-based platform_id_ / device_id_
Resolved(api, kind, out, pid, did, oob) ==
  [api |-> api, kind |-> kind, out |-> out, platform_id |-> pid,
   device_id |-> did, oob |-> oob]

\* no queue constructed yet
NoCtx == [env |-> <<>>, pl |-> <<>>, dev |-> <<>>, pi |-> 0, di |-> 0,
          last |-> Resolved("none", "none", "none", -1, -1, FALSE)]

\* DMatrix<T>::DMatrix(): rows_(0), cols_(0), buffer_ null.  made tells
\* whether the caller has constructed its device matrix; m is the host matrix
\* of the last load (DMatrix(const Matrix&) or UpdateData; 0 when buffer_ was
\* not loaded from a matrix), load counts the times buffer_ was set and h
\* is the handle the last load returned (0 for a synchronous one).  buff is
\* the buffer the caller's own cl::Buffer variable holds (0 for none), g the
\* buffers held by the device matrices that were move-constructed from this
\* one, and edited tells that the caller has written to m, or reshaped it,
\* since the last load
NoDMatrix == [made |-> FALSE, rows |-> 0, cols |-> 0, buffer |-> 0,
              m |-> 0, load |-> 0, h |-> 0, buff |-> 0, g |-> {},
              edited |-> FALSE]

\* the second thread has not been given a handle: st is where the thread is
\* (idle, blocked in get(), done, failed), f the handle it consumes and out
\* what get() returned to it
NoThread == [st |-> "idle", f |-> 0, out |-> <<>>]

InitBind ==
  /\ args \in {MakeArgs(k) : k \in ArgLists}
  /\ task = NoTask
  /\ oclTask = NoOclTask
  /\ cache = NoCache
  /\ ctx = NoCtx
  /\ dmat = NoDMatrix
  /\ thr = NoThread
  /\ EngineIdle

\* ============================================================ device resolution
\* platforms / devices of a platform the OpenCL runtime enumerates at most
MaxEntries == 2

\* ::toupper on the characters used in names
ToUpper(ch) == CASE ch = "a" -> "A" [] ch = "b" -> "B" [] OTHER -> ch

\* std::transform(s.begin(), s.end(), s.begin(), ::toupper)
Upper(s) == [i \in 1..Len(s) |-> ToUpper(s[i])]

\* name.find(pat) != std::string::npos
Contains(name, pat) ==
  \E i \in 0..(Len(name) - Len(pat)) : SubSeq(name, i + 1, i + Len(pat)) = pat

\* find_if / the for loop with break: the first position whose entry passes
\* Test, 0 when none does
FindIf(list, Test(_)) ==
  IF \E i \in 1..Len(list) : Test(list[i])
  THEN CHOOSE i \in 1..Len(list) :
         Test(list[i]) /\ \A j \in 1..(i - 1) : ~Test(list[j])
  ELSE 0

\* cl::Context(CL_DEVICE_TYPE_ALL, properties) on a platform without devices
\* throws CL_DEVICE_NOT_FOUND
NoDevices(platform) == platform.devices = <<>>

\* Queue::Queue(platformPartName, devicePartName): both the patterns and the
\* enumerated names are converted to upper case before find
QueueByName(env, pl, dev) ==
  LET p == FindIf(env, LAMBDA x : Contains(Upper(x.name), Upper(pl)))
  IN IF p = 0 THEN Resolved("Queue", "name", "CL_INVALID_PLATFORM", -1, -1, FALSE)
     ELSE IF NoDevices(env[p])
     THEN Resolved("Queue", "name", "CL_DEVICE_NOT_FOUND", p - 1, -1, FALSE)
     ELSE LET d == FindIf(env[p].devices, LAMBDA x : Contains(Upper(x), Upper(dev)))
          IN IF d = 0
             THEN Resolved("Queue", "name", "CL_INVALID_DEVICE", p - 1, -1, FALSE)
             ELSE Resolved("Queue", "name", "ok", p - 1, d - 1, FALSE)

\* OpenCLQueue::OpenCLQueue(platformName, deviceName): name.find(platformName)
\* and name.find(deviceName) on the names as enumerated
OclQueueByName(env, pl, dev) ==
  LET p == FindIf(env, LAMBDA x : Contains(x.name, pl))
  IN IF p = 0 THEN Resolved("OpenCLQueue", "name", "CL_INVALID_PLATFORM", -1, -1, FALSE)
     ELSE IF NoDevices(env[p])
     THEN Resolved("OpenCLQueue", "name", "CL_DEVICE_NOT_FOUND", p - 1, -1, FALSE)
     ELSE LET d == FindIf(env[p].devices, LAMBDA x : Contains(x, dev))
          IN IF d = 0
             THEN Resolved("OpenCLQueue", "name", "CL_INVALID_DEVICE", p - 1, -1, FALSE)
             ELSE Resolved("OpenCLQueue", "name", "ok", p - 1, d - 1, FALSE)

\* Queue::Queue(int platformId, int deviceId): the only checks are
\* size() <= platformId and size() <= deviceId, so a negative index passes
\* and platforms[platformId] / devices[deviceId] reads before the vector: the
\* process dies or the stray handle is rejected by the next OpenCL call.
\* The set of possible outcomes.
QueueByIndex(env, pi, di) ==
  IF Len(env) <= pi
  THEN { Resolved("Queue", "index", "CL_INVALID_PLATFORM", -1, -1, FALSE) }
  ELSE IF pi < 0
  THEN { Resolved("Queue", "index", out, pi, -1, TRUE) :
           out \in {"crash", "CL_INVALID_PLATFORM"} }
  ELSE IF NoDevices(env[pi + 1])
  THEN { Resolved("Queue", "index", "CL_DEVICE_NOT_FOUND", pi, -1, FALSE) }
  ELSE IF Len(env[pi + 1].devices) <= di
  THEN { Resolved("Queue", "index", "CL_INVALID_DEVICE", pi, -1, FALSE) }
  ELSE IF di < 0
  THEN { Resolved("Queue", "index", out, pi, di, TRUE) :
           out \in {"crash", "CL_INVALID_DEVICE"} }
  ELSE { Resolved("Queue", "index", "ok", pi, di, FALSE) }

\* names the runtime reports and patterns the caller passes
PlatformNames == { << "A", "b" >>, << "a" >>, << "B" >> }
DeviceNames == { << "a", "B" >>, << "b" >> }
Patterns == { <<>>, << "a" >>, << "A" >>, << "b" >>, << "a", "b" >> }
Indices == (-1)..MaxEntries

SeqsUpTo(S, n) == UNION {[1..k -> S] : k \in 0..n}

\* what cl::Platform::get and CL_CONTEXT_DEVICES enumerate on a machine
Environments ==
  SeqsUpTo([name : PlatformNames, devices : SeqsUpTo(DeviceNames, MaxEntries)],
           MaxEntries)

InitResolve ==
  /\ args = <<>>
  /\ task = NoTask
  /\ oclTask = NoOclTask
  /\ cache = NoCache
  /\ dmat = NoDMatrix
  /\ thr = NoThread
  /\ EngineIdle
  /\ \E env \in Environments : ctx = [NoCtx EXCEPT !.env = env]

NewQueueByName(pl, dev) ==
  /\ ctx' = [ctx EXCEPT !.pl = pl, !.dev = dev, !.pi = 0, !.di = 0,
                        !.last = QueueByName(ctx.env, pl, dev)]
  /\ UNCHANGED <<args, task, oclTask, cache, dmat, thr>>
  /\ UNCHANGED engineVars

NewOpenCLQueue(pl, dev) ==
  /\ ctx' = [ctx EXCEPT !.pl = pl, !.dev = dev, !.pi = 0, !.di = 0,
                        !.last = OclQueueByName(ctx.env, pl, dev)]
  /\ UNCHANGED <<args, task, oclTask, cache, dmat, thr>>
  /\ UNCHANGED engineVars

NewQueueByIndex(pi, di) ==
  /\ \E r \in QueueByIndex(ctx.env, pi, di) :
       ctx' = [ctx EXCEPT !.pl = <<>>, !.dev = <<>>, !.pi = pi, !.di = di,
                          !.last = r]
  /\ UNCHANGED <<args, task, oclTask, cache, dmat, thr>>
  /\ UNCHANGED engineVars

NextResolve ==
  \/ \E pl \in Patterns, dev \in Patterns : NewQueueByName(pl, dev)
  \/ \E pl \in Patterns, dev \in Patterns : NewOpenCLQueue(pl, dev)
  \/ \E pi \in Indices, di \in Indices : NewQueueByIndex(pi, di)

SpecResolve == InitResolve /\ [][NextResolve]_vars

\* ============================================================ program cache
\* compile requests per run
MaxRequests == 3
\* char buff[512] in Queue::CreateTask
BuffSize == 512

Str(n, ch) == [i \in 1..n |-> ch]

\* std::snprintf(buff, size, ...) keeps at most size - 1 characters
Take(s, n) == IF Len(s) <= n THEN s ELSE SubSeq(s, 1, n)

\* the format "program=\"%s\"\noptions=\"%s\""
ProgramIdFormat(path, options) ==
  << "p", "r", "o", "g", "r", "a", "m", "=", "\"" >> \o path \o
  << "\"", "\n", "o", "p", "t", "i", "o", "n", "s", "=", "\"" >> \o options \o
  << "\"" >>

\* Queue::CreateTask: program_id(buff)
QueueProgramId(path, options) ==
  Take(ProgramIdFormat(path, options), BuffSize - 1)

\* OpenCLQueue::AddTask: program_id = pathToProgram + compileOptions
OclProgramId(path, options) == path \o options

\* OpenCLQueue::AddTask: kernel_id = program_id + "; " + kernelName
KernelId(pid, entry) == pid \o << ";", " " >> \o entry

\* std::unordered_map as a set of entries [key, of, built]: of is the pair the
\* cl::Program was created from (NoPair for a default-constructed object),
\* built whether it holds a built program / a valid kernel
Keys(m) == {e.key : e \in m}
Lookup(m, key) == CHOOSE e \in m : e.key = key
Put(m, e) == {x \in m : x.key # e.key} \cup {e}

\* programs_.find(program_id) != programs_.end()
CacheHitNeverMut(m, key) == FALSE

CacheHit(m, key) == key \in Keys(m)

\* if (build_flag || kernels_.find(kernel_id) == kernels_.end())
KernelNeeded(build_flag, found) == build_flag \/ ~found

\* program.build threw in request r
BuildFailed(r) == r.built /\ r.result = "error"

\* bookkeeping of a request r on cache c
Logged(c, r) ==
  [c EXCEPT !.nreq = @ + 1,
            !.requested = @ \cup {r.pair},
            !.okPairs = IF r.built /\ r.result = "ok" THEN @ \cup {r.pair} ELSE @,
            !.failed = IF BuildFailed(r) THEN @ \cup {r.pair} ELSE @ \ {r.pair},
            !.last = r]

\* the request as it starts
NewRequest(c, pair, entry, key) ==
  [NoRequest EXCEPT !.pair = pair, !.entry = entry,
                    !.fresh = pair \notin c.requested,
                    !.wasOk = pair \in c.okPairs,
                    !.wasFailed = pair \in c.failed,
                    !.usedBefore = << key, entry >> \in c.made,
                    !.before = c.programs]

\* Queue::CreateTask(programName, kernelName, options, ...): look the
\* program up under program_id; on a miss build it, print the build log and
\* rethrow on failure, store it on success; then create a cl::Kernel.
\* ok tells whether the source builds with the options.
CreateTaskCompile(c, pair, entry, ok) ==
  LET key == QueueProgramId(pair.path, pair.options)
      hit == CacheHit(c.programs, key)
      r0 == [NewRequest(c, pair, entry, key) EXCEPT !.built = ~hit]
  IN IF ~hit /\ ~ok
     THEN Logged(c, [r0 EXCEPT !.result = "error", !.err = "build_failure",
                               !.logOf = pair, !.logIn = "stdout"])
     ELSE LET progs == IF hit THEN c.programs
                       ELSE Put(c.programs, [key |-> key, of |-> pair, built |-> TRUE])
              prog == Lookup(progs, key)
          IN Logged([c EXCEPT !.programs = progs,
                              !.made = @ \cup {<< key, entry >>}],
                    [r0 EXCEPT !.result = "ok", !.newKernel = TRUE,
                               !.kernelOf = prog.of])

\* OpenCLQueue::AddTask, up to the kernel: on a miss programs_[program_id] is
\* assigned before the build; the catch block reads the build log of
\* programs_[pathToProgram] (operator[] inserts a default cl::Program when
\* the key is absent, and getBuildInfo on it throws) and rethrows; then the
\* kernel is created when the program was built in this call or no kernel is
\* cached under kernel_id; cl::Kernel throws CL_INVALID_PROGRAM on a
\* default-constructed program and CL_INVALID_PROGRAM_EXECUTABLE on one whose
\* build failed.  ins: whether kernels_[kernel_id] is evaluated
\* before the cl::Kernel constructor throws (unspecified order).
AddTaskCompile(c, pair, entry, ok, ins) ==
  LET pid == OclProgramId(pair.path, pair.options)
      hit == CacheHit(c.programs, pid)
      r0 == [NewRequest(c, pair, entry, pid) EXCEPT !.built = ~hit]
      p1 == IF hit THEN c.programs
            ELSE Put(c.programs, [key |-> pid, of |-> pair, built |-> ok])
  IN IF ~hit /\ ~ok
     THEN LET lk == pair.path
              lhit == CacheHit(p1, lk)
              p2 == IF lhit THEN p1
                    ELSE Put(p1, [key |-> lk, of |-> NoPair, built |-> FALSE])
              lp == Lookup(p2, lk)
          IN Logged([c EXCEPT !.programs = p2],
                    IF lp.of # NoPair
                    THEN [r0 EXCEPT !.result = "error", !.err = "build_failure",
                                    !.logOf = lp.of, !.logIn = "stdout"]
                    ELSE [r0 EXCEPT !.result = "error", !.err = "invalid_program"])
     ELSE LET prog == Lookup(p1, pid)
              kid == KernelId(pid, entry)
              found == CacheHit(c.kernels, kid)
              c1 == [c EXCEPT !.programs = p1]
          IN IF KernelNeeded(~hit, found)
             THEN IF prog.built
                  THEN Logged([c1 EXCEPT !.kernels = Put(@, [key |-> kid, of |-> prog.of,
                                                             built |-> TRUE]),
                                         !.made = @ \cup {<< pid, entry >>}],
                              [r0 EXCEPT !.result = "ok", !.newKernel = TRUE,
                                         !.kernelOf = prog.of])
                  ELSE Logged([c1 EXCEPT !.kernels =
                                 IF ins /\ ~found
                                 THEN Put(@, [key |-> kid, of |-> NoPair, built |-> FALSE])
                                 ELSE @],
                              [r0 EXCEPT !.result = "error",
                                         !.err = IF prog.of = NoPair
                                                 THEN "invalid_program"
                                                 ELSE "invalid_program_executable"])
             ELSE LET k == Lookup(c.kernels, kid)
                  IN IF k.built
                     THEN Logged(c1, [r0 EXCEPT !.result = "ok", !.kernelOf = k.of])
                     ELSE Logged(c1, [r0 EXCEPT !.result = "error",
                                                !.err = "invalid_kernel"])

\* the (path, options) pairs of the requests: equal pairs, pairs differing in
\* one part, two pairs with equal concatenations, and two pairs whose paths
\* fill the program_id buffer
CompilePairs ==
  { [path |-> << "a" >>, options |-> <<>>],
    [path |-> << "a" >>, options |-> << "b", "c" >>],
    [path |-> << "a", "b" >>, options |-> << "c" >>],
    [path |-> Str(BuffSize, "x"), options |-> << "b" >>],
    [path |-> Str(BuffSize, "x"), options |-> << "c" >>] }

EntryPoints == { << "k" >>, << "m" >> }

InitCache ==
  /\ args = <<>>
  /\ task = NoTask
  /\ oclTask = NoOclTask
  /\ EngineIdle
  /\ \E api \in {"Queue", "OpenCLQueue"} : cache = [NoCache EXCEPT !.api = api]
  /\ ctx = NoCtx
  /\ dmat = NoDMatrix
  /\ thr = NoThread

QueueCompile(pair, entry, ok) ==
  /\ cache.api = "Queue"
  /\ cache.nreq < MaxRequests
  /\ cache' = CreateTaskCompile(cache, pair, entry, ok)
  /\ UNCHANGED <<args, task, oclTask, ctx, dmat, thr>>
  /\ UNCHANGED engineVars

OclCompile(pair, entry, ok) ==
  /\ cache.api = "OpenCLQueue"
  /\ cache.nreq < MaxRequests
  /\ \E ins \in BOOLEAN : cache' = AddTaskCompile(cache, pair, entry, ok, ins)
  /\ UNCHANGED <<args, task, oclTask, ctx, dmat, thr>>
  /\ UNCHANGED engineVars

NextCache ==
  \/ \E pair \in CompilePairs, entry \in EntryPoints, ok \in BOOLEAN :
       QueueCompile(pair, entry, ok)
  \/ \E pair \in CompilePairs, entry \in EntryPoints, ok \in BOOLEAN :
       OclCompile(pair, entry, ok)

SpecCache == InitCache /\ [][NextCache]_vars

\* ============================================================ engine model
\* dispatching API calls (AddTask, matrix operators, EnqueueTask, ...) per run
MaxCalls == 2
\* handles in a run beyond which no Immediate or move-constructed handle is
\* created
MaxHandles == 3
\* host matrices the caller owns at the start
NumMatrices == 1
\* the value the caller fills its input arrays with
FillVal == 1
\* the largest element count of an array the caller dispatches on, and the
\* largest block size it gives a matrix
MaxLen == 2
\* edits of an hblas::Matrix (element store, resize, copy assignment,
\* transpose) the caller makes per run
MaxEdits == 1
\* the value the caller stores into the elements of a host matrix
StoreVal == 0
\* MatrixQueue::block_size, the work-group edge of the DMatrix product
MatrixQueueBlockSize == 32
\* the caller's matrices are n x n: a single element, or one work-group of
\* the DMatrix product
MatrixDims == {1, MatrixQueueBlockSize}

\* content of a storage block: def = FALSE is indeterminate content (memory
\* from new T[n] never written, a WRITE_ONLY buffer before the kernel ran, or
\* whatever a read of released memory yields)
Undef == [def |-> FALSE, val |-> 0]
Val(v) == [def |-> TRUE, val |-> v]

SeqRange(s) == {s[k] : k \in 1..Len(s)}

\* ------------------------------------------------------------ storage lifetime
\* std::shared_ptr in shared_array: the block lives while some owner is left,
\* the caller's own variables (user) or a live handle storing the array.
HostAlive(a) ==
  \/ harr[a].user
  \/ \E f \in 1..Len(futs) : futs[f].live /\ a \in SeqRange(futs[f].arrs)

\* cl::Event status CL_COMPLETE; the null event 0 never fires
EventFired(e) == e # 0 /\ cmds[e].st = "done"

Unfinished(c) == cmds[c].st # "done"

\* host storage a command touches while it is queued or running: the target
\* of a read-back, the source of a host-to-device copy, and the host block
\* behind every CL_MEM_USE_HOST_PTR buffer the kernel is bound to
CmdBuffers(c) ==
  IF cmds[c].kind = "kernel"
  THEN {cmds[c].params[k].buf : k \in 1..Len(cmds[c].params)} \ {0}
  ELSE {cmds[c].buf}

CmdHostBlocks(c) ==
  ({dbuf[b].hostptr : b \in CmdBuffers(c)} \cup
   (IF cmds[c].kind = "kernel" THEN {} ELSE {cmds[c].arr})) \ {0}

\* ------------------------------------------------------------ kernels
\* the value the kernel stores through output parameter idx, given what it
\* read through its parameters (ival, aligned with params)
RECURSIVE SumVals(_)
SumVals(s) == IF s = <<>> THEN 0 ELSE Head(s).val + SumVals(Tail(s))

KernelInputs(params, ival) ==
  LET ks == SelectSeq([k \in 1..Len(params) |-> k],
                      LAMBDA k : params[k].io \in {"IN", "IN_OUT"})
  IN [j \in 1..Len(ks) |-> ival[ks[j]]]

KernelCompute(kname, params, ival, idx) ==
  LET ins == KernelInputs(params, ival)
      alldef == \A j \in 1..Len(ins) : ins[j].def
  IN IF ~alldef THEN Undef
     ELSE LET m1 == ins[1].val
              \* DMatrix operator* passes m1, m1_param, m2, m2_param
              m2 == IF Len(ins) = 4 THEN ins[3].val ELSE ins[2].val
          IN CASE kname \in {"matrix_add", "vector_add"} -> Val(m1 + m2)
               [] kname = "matrix_sub" -> Val(m1 - m2)
               [] kname = "matrix_mul" -> Val(m1 * m2)
               [] kname = "copy" -> Val(m1)
               [] OTHER -> Val(SumVals(ins) + idx)

\* what is read from block a of host store h
BlockRead(h, a) == [def |-> h[a].def, val |-> h[a].val]

\* ------------------------------------------------------------ command queue
\* cl::CommandQueue(context_, device): properties 0, an in-order queue: a
\* command starts only when everything submitted before it to the same queue
\* is complete
InOrderReadyOutOfOrderMut(c) == TRUE

InOrderReadyKernelOnlyMut(c) ==
  \A d \in 1..(c - 1) :
    cmds[d].q = cmds[c].q /\ cmds[d].kind = "kernel" => cmds[d].st = "done"

InOrderReady(c) ==
  \A d \in 1..(c - 1) : cmds[d].q = cmds[c].q => cmds[d].st = "done"

CanStart(c) ==
  /\ cmds[c].st = "queued"
  /\ InOrderReady(c)
  /\ \A e \in cmds[c].waits : EventFired(e)

\* what the device reads through buffer b: its own content, or for a
\* CL_MEM_USE_HOST_PTR buffer the host block behind it, which yields anything
\* once that block has been released
BufferRead(b) ==
  IF dbuf[b].hostptr = 0 THEN [def |-> dbuf[b].def, val |-> dbuf[b].val]
  ELSE IF HostAlive(dbuf[b].hostptr)
       THEN [def |-> harr[dbuf[b].hostptr].def, val |-> harr[dbuf[b].hostptr].val]
       ELSE Undef

ParamRead(p) ==
  IF p.io \in {"IN", "IN_OUT"} /\ p.buf # 0 THEN BufferRead(p.buf)
  ELSE IF p.io = "VAR" THEN Val(p.sval)
  ELSE Undef

\* the device starts command c; a kernel reads its inputs through the
\* argument values clEnqueueNDRangeKernel captured in the command (params)
DeviceStart(c) ==
  /\ host.st # "crashed"
  /\ CanStart(c)
  /\ cmds' = [cmds EXCEPT ![c].st = "running",
                          ![c].ival = IF cmds[c].kind = "kernel"
                                      THEN [k \in 1..Len(cmds[c].params) |->
                                              ParamRead(cmds[c].params[k])]
                                      ELSE @,
                          ![c].stale = @ \/ \E e \in cmds[c].deps : ~EventFired(e)]
  /\ UNCHANGED <<harr, dbuf, futs, host, ncalls>>
  /\ UNCHANGED bindVars

KernelWrites(c, b) ==
  LET ps == cmds[c].params
      hit == {k \in 1..Len(ps) : ps[k].buf = b /\ ps[k].io \in {"OUT", "IN_OUT"}}
  IN IF hit = {} THEN [def |-> dbuf[b].def, val |-> dbuf[b].val]
     ELSE LET k == CHOOSE x \in hit : \A y \in hit : x >= y
          IN KernelCompute(cmds[c].kname, ps, cmds[c].ival, ps[k].idx)

\* the device completes command c and fires its event.  A kernel stores its
\* outputs; a read-back copies the buffer into the host array; a write copies
\* the host array into the buffer (into the host block behind it, for a
\* CL_MEM_USE_HOST_PTR buffer).  A copy that touches released host memory is
\* undefined: the process dies, or the copy goes unnoticed and what it read
\* is indeterminate.
DeviceComplete(c) ==
  /\ host.st # "crashed"
  /\ cmds[c].st = "running"
  /\ cmds' = [cmds EXCEPT ![c].st = "done"]
  /\ CASE cmds[c].kind = "kernel" ->
            /\ dbuf' = [b \in 1..Len(dbuf) |->
                          LET w == KernelWrites(c, b)
                          IN [dbuf[b] EXCEPT !.def = w.def, !.val = w.val]]
            /\ UNCHANGED <<harr, host>>
       [] cmds[c].kind = "read" ->
            IF HostAlive(cmds[c].arr)
            THEN /\ harr' = [harr EXCEPT ![cmds[c].arr].def = BufferRead(cmds[c].buf).def,
                                         ![cmds[c].arr].val = BufferRead(cmds[c].buf).val]
                 /\ UNCHANGED <<dbuf, host>>
            ELSE /\ \/ host' = [host EXCEPT !.st = "crashed"]
                    \/ UNCHANGED host
                 /\ UNCHANGED <<harr, dbuf>>
       [] OTHER ->
            LET src == IF HostAlive(cmds[c].arr) THEN BlockRead(harr, cmds[c].arr)
                       ELSE Undef
                b == cmds[c].buf
                hp == dbuf[b].hostptr
            IN /\ IF hp = 0
                  THEN /\ dbuf' = [dbuf EXCEPT ![b].def = src.def, ![b].val = src.val]
                       /\ UNCHANGED harr
                  ELSE /\ harr' = IF HostAlive(hp)
                                  THEN [harr EXCEPT ![hp].def = src.def,
                                                    ![hp].val = src.val]
                                  ELSE harr
                       /\ UNCHANGED dbuf
               /\ IF HostAlive(cmds[c].arr) /\ (hp = 0 \/ HostAlive(hp))
                  THEN UNCHANGED host
                  ELSE \/ host' = [host EXCEPT !.st = "crashed"]
                       \/ UNCHANGED host
  /\ UNCHANGED <<futs, ncalls>>
  /\ UNCHANGED bindVars

\* ------------------------------------------------------------ records
NewCmd(q, kind, call, waits) ==
  [q |-> q, kind |-> kind, st |-> "queued", call |-> call, waits |-> waits,
   kname |-> "", params |-> <<>>, ival |-> <<>>, buf |-> 0, own |-> 0,
   arr |-> 0, deps |-> {}, stale |-> FALSE]

\* waited and seen record that a get() / wait() returned and what the result
\* was then; given lists the buffers of the result get() moved out to the
\* caller (a DMatrix or a vector of cl::Buffer the caller now holds); from and
\* moved record the move construction that created the handle
NewFuture(cls, holds, call, event, isset, arrs, bufs) ==
  [cls |-> cls, holds |-> holds, live |-> TRUE, call |-> call, event |-> event,
   is_event_set |-> isset, arrs |-> arrs, bufs |-> bufs,
   waited |-> FALSE, seen |-> <<>>, given |-> <<>>, from |-> 0, moved |-> <<>>]

NewBlock(user, c) == [user |-> user, def |-> c.def, val |-> c.val]

\* a cl::Buffer memory object: hostptr is the host block it aliases
\* (CL_MEM_USE_HOST_PTR) or 0; user tells whether a variable of the caller
\* (a BufferArg, a DMatrix) holds it
NewBuffer(c, hostptr, user) ==
  [def |-> c.def, val |-> c.val, hostptr |-> hostptr, user |-> user]

\* ------------------------------------------------------------ OpenCLQueue::AddTask
\* the buffer SetKernelArgs creates for argument a of the pack, h being the
\* host store at the call: CL_MEM_COPY_HOST_PTR copies the host array into
\* the buffer's own storage when the buffer is created
SetKernelArgsBufferUseHostPtrMut(h, a) ==
  IF a.io = "OUT" THEN NewBuffer(Undef, 0, FALSE)
  ELSE NewBuffer(BlockRead(h, a.data), a.data, FALSE)

SetKernelArgsBuffer(h, a) ==
  IF a.io = "OUT" THEN NewBuffer(Undef, 0, FALSE)
  ELSE NewBuffer(BlockRead(h, a.data), 0, FALSE)

\* kernels_[kernel_id]: one cl::Kernel per program path, compile options and
\* kernel name, shared by every AddTask call that names them:
\* kernel_id = pathToProgram + compileOptions + "; " + kernelName
KernelObjectId(prog, kname) ==
  KernelId(OclProgramId(prog.path, prog.options), << kname >>)

\* the argument values the kernel object kid holds in caches c: none for an
\* object no call has bound arguments on
BoundArgs(c, kid) ==
  IF CacheHit(c.bound, kid) THEN Lookup(c.bound, kid).args ELSE <<>>

\* kernel->setArg(argIndex, value): clSetKernelArg stores the value for
\* parameter argIndex in the kernel object, in place of what an earlier call
\* stored for that parameter
KernelSetArg(obj, p) ==
  IF p.idx < Len(obj) THEN [obj EXCEPT ![p.idx + 1] = p] ELSE Append(obj, p)

\* SetKernelArgs(0, &kernels_[kernel_id], &buffers, args...) on the kernel
\* object: one setArg per argument, in argument order
RECURSIVE SetKernelArgsOn(_, _)
SetKernelArgsOn(obj, ps) ==
  IF ps = <<>> THEN obj
  ELSE SetKernelArgsOn(KernelSetArg(obj, Head(ps)), Tail(ps))

\* the values SetKernelArgs binds for the pack `as`: parameter index, kind,
\* the buffer created for a buffer argument (base buffers exist before the
\* call) and the value of a scalar
AddTaskParams(as, base) ==
  LET pos == [i \in 1..Len(as) |-> [io |-> as[i].io, data |-> i]]
      plan == AddTaskPlan(pos)
      BufOfPos(p) == LET js == {j \in 1..Len(plan.buffers) : plan.buffers[j] = p}
                     IN IF js = {} THEN 0 ELSE base + (CHOOSE j \in js : TRUE)
  IN [k \in 1..Len(plan.kargs) |->
        LET a == as[plan.kargs[k][2]]
        IN [idx |-> plan.kargs[k][1], io |-> a.io,
            buf |-> BufOfPos(plan.kargs[k][2]), sval |-> a.sval]]

\* the kernel object of the call after its first n arguments have been bound:
\* kernels_[kernel_id] is a new cl::Kernel when this call created it and the
\* cached object, with what the calls before left in it, otherwise
KernelBoundOnCreationMut(c, as, kid, n) ==
  IF c.last.newKernel \/ ~CacheHit(c.bound, kid)
  THEN SetKernelArgsOn(<<>>, SubSeq(AddTaskParams(as, Len(dbuf)), 1, n))
  ELSE BoundArgs(c, kid)

KernelBound(c, as, kid, n) ==
  SetKernelArgsOn(IF c.last.newKernel THEN <<>> ELSE BoundArgs(c, kid),
                  SubSeq(AddTaskParams(as, Len(dbuf)), 1, n))

\* OpenCLQueue::AddTask on the argument pack `as` (io, data = host block or 0,
\* sval = scalar value), from the kernel on: c is programs_ / kernels_ with the
\* program prog (path, options) built and the kernel object of kernel kname
\* looked up or created, h the host store
\* at the call and deps the events of the handles the caller built the
\* arguments from.
\*   SetKernelArgs: IN and IN_OUT buffers are created with CL_MEM_COPY_HOST_PTR,
\*     so the host array is read at this point; OUT buffers start indeterminate;
\*     every argument is bound on the kernel object kernels_[kernel_id];
\*   enqueueNDRangeKernel with no wait-list: the command captures the argument
\*     values the kernel object holds at this call;
\*   GetResults: one non-blocking enqueueReadBuffer(buffers[argIndex], ...) per
\*     OUT / IN_OUT argument, each overwriting *event;
\*   return cl_future(ComposeOutTuple(args...), buffers, event).
\* buffers[argIndex] past the end of the vector is undefined: enqueueReadBuffer
\* throws cl::Error CL_INVALID_MEM_OBJECT on the invalid handle and AddTask
\* leaves with it, its kernel and the read-backs before it submitted, or the
\* process dies, or the stray handle names some buffer of the context.
\* the event AddTask hands to cl_future: `event` is written by
\* enqueueNDRangeKernel (command kc) and again by each of the nr
\* enqueueReadBuffer calls of GetResults that follow it
LastEventKernelMut(kc, nr) == kc

LastEvent(kc, nr) == kc + nr

AddTask(c, h, as, prog, kname, deps, holds) ==
  LET pos == [i \in 1..Len(as) |-> [io |-> as[i].io, data |-> i]]
      plan == AddTaskPlan(pos)
      nb == Len(plan.buffers)
      base == Len(dbuf)
      call == ncalls + 1
      BufOfPos(p) == LET js == {j \in 1..nb : plan.buffers[j] = p}
                     IN IF js = {} THEN 0 ELSE base + (CHOOSE j \in js : TRUE)
      newbufs == [j \in 1..nb |-> SetKernelArgsBuffer(h, as[plan.buffers[j]])]
      kid == KernelObjectId(prog, kname)
      obj == KernelBound(c, as, kid, Len(as))
      kc == Len(cmds) + 1
      kernel == [NewCmd("ocl", "kernel", call, {})
                   EXCEPT !.kname = kname, !.params = obj, !.deps = deps,
                          !.stale = \E e \in deps : ~EventFired(e)]
      nr == Len(plan.reads)
      bad == {k \in 1..nr : plan.reads[k].idx > nb}
      ReadCmd(k, stray) ==
        [NewCmd("ocl", "read", call, {})
           EXCEPT !.buf = IF k \in bad THEN stray ELSE base + plan.reads[k].idx,
                  !.own = BufOfPos(plan.reads[k].dst),
                  !.arr = as[plan.reads[k].dst].data]
      Submitted(n, stray) == <<kernel>> \o [k \in 1..n |-> ReadCmd(k, stray)]
      firstBad == CHOOSE k \in bad : \A j \in bad : k <= j
      handle == NewFuture("cl_future", holds, call, LastEvent(kc, nr), TRUE,
                          [k \in 1..Len(plan.tuple) |-> as[plan.tuple[k]].data],
                          [j \in 1..nb |-> base + j])
  IN /\ harr' = h
     /\ dbuf' = dbuf \o newbufs
     /\ ncalls' = call
     /\ cache' = [c EXCEPT !.bound = Put(@, [key |-> kid, args |-> obj])]
     /\ IF bad = {}
        THEN /\ cmds' = cmds \o Submitted(nr, 0)
             /\ futs' = Append(futs, handle)
             /\ UNCHANGED host
        ELSE \/ /\ cmds' = cmds \o Submitted(firstBad - 1, 0)
                /\ UNCHANGED futs
                /\ \/ host' = [host EXCEPT !.st = "failed",
                                           !.err = "CL_INVALID_MEM_OBJECT"]
                   \/ host' = [host EXCEPT !.st = "crashed"]
             \/ \E stray \in 1..(base + nb) :
                  /\ cmds' = cmds \o Submitted(nr, stray)
                  /\ futs' = Append(futs, handle)
                  /\ UNCHANGED host

\* argument packs the caller hands to AddTask directly
UserArgLists ==
  { <<"IN_OUT", "OUT">>, <<"LOCALE", "OUT", "IN">>, <<"VAR", "OUT">> }

\* the program file of the caller's kernel for a pack of these kinds: a
\* kernel has one parameter list, so the caller names another program for
\* another pack; no compile options
UserProgram(kinds) == [path |-> << "user_" >> \o kinds \o << ".cl" >>,
                       options |-> <<>>]

\* the caller allocates one shared_array per buffer argument (inputs filled
\* with FillVal, outputs left as new int[n] gives them), wraps them in cl_data_t
\* and calls queue.AddTask(...), as tests/opencl_queue_test.cc does
UserAddTask(kinds) ==
  /\ host.api = "OpenCLQueue"
  /\ host.st = "idle"
  /\ ncalls < MaxCalls
  /\ LET n == Len(kinds)
         bpos == SelectSeq([i \in 1..n |-> i],
                           LAMBDA i : kinds[i] \in {"IN", "OUT", "IN_OUT"})
         BlockOfPos(p) == LET js == {j \in 1..Len(bpos) : bpos[j] = p}
                          IN IF js = {} THEN 0
                             ELSE Len(harr) + (CHOOSE j \in js : TRUE)
         h == harr \o [j \in 1..Len(bpos) |->
                         NewBlock(TRUE, IF kinds[bpos[j]] = "OUT"
                                        THEN Undef ELSE Val(FillVal))]
         as == [i \in 1..n |-> [io |-> kinds[i], data |-> BlockOfPos(i),
                                sval |-> FillVal]]
     IN AddTask(cache, h, as, UserProgram(kinds), "user_kernel", {}, "tuple")
  /\ UNCHANGED <<args, task, oclTask, ctx, dmat, thr>>

\* ------------------------------------------------------------ dispatch errors
\* the call throws before anything is submitted: the caller's arrays exist,
\* h and d are the host store and the buffers created up to the throw (a
\* buffer no variable, handle or command refers to is released), and no
\* command or handle is created
DispatchThrows(h, d, err) ==
  /\ harr' = h
  /\ dbuf' = d
  /\ ncalls' = ncalls + 1
  /\ host' = [host EXCEPT !.st = "failed", !.err = err]
  /\ UNCHANGED <<cmds, futs>>

\* the block sizes the caller constructs its matrices with:
\* Matrix(rows, cols, block_size = 0)
BlockSizes == 0..MaxLen

\* kernel->setArg(argIndex, cl::Local(memsize)): clSetKernelArg with a size of
\* 0 for a __local parameter fails with CL_INVALID_ARG_SIZE
SetArgLocal(memsize) == IF memsize = 0 THEN "CL_INVALID_ARG_SIZE" ELSE "ok"

\* enqueueNDRangeKernel(kernel, offset, global, local): cl::NullRange (<<>>)
\* leaves the work-group size to the implementation; an explicit one must be
\* positive and divide the global size in every dimension
WorkGroupValid(global, local) ==
  \/ local = <<>>
  \/ /\ Len(local) = Len(global)
     /\ \A k \in 1..Len(local) : local[k] > 0 /\ global[k] % local[k] = 0

EnqueueNDRangeKernel(global, local) ==
  IF WorkGroupValid(global, local) THEN "ok" ELSE "CL_INVALID_WORK_GROUP_SIZE"

\* the first error AddTask raises for operator*: SetKernelArgs binds dm1, dm2,
\* dres and then dloc = shared_array(nullptr, block_size * block_size), and
\* enqueueNDRangeKernel follows with local = NDRange(block_size, block_size)
MulDispatchError(rows, cols, block_size) ==
  IF SetArgLocal(block_size * block_size) # "ok"
  THEN SetArgLocal(block_size * block_size)
  ELSE EnqueueNDRangeKernel(<<cols, rows>>, <<block_size, block_size>>)

\* the arguments SetKernelArgs has bound when operator* throws: dm1, dm2 and
\* dres when setArg rejects the first cl::Local, all seven when
\* enqueueNDRangeKernel rejects the work-group size
MulBound(block_size) ==
  IF SetArgLocal(block_size * block_size) # "ok" THEN 3 ELSE 7

\* AddTask leaves with cl::Error err from SetKernelArgs or from
\* enqueueNDRangeKernel: the first n arguments of the pack have been bound on
\* the kernel object kernels_[kernel_id], which keeps them; the buffers
\* created for them go with the buffers vector, and nothing is submitted
AddTaskThrows(c, h, as, prog, kname, n, err) ==
  LET made == SelectSeq(SubSeq(as, 1, n), IsBufferArg)
      kid == KernelObjectId(prog, kname)
  IN /\ DispatchThrows(h, dbuf \o [j \in 1..Len(made) |->
                                      SetKernelArgsBuffer(h, made[j])], err)
     /\ cache' = [c EXCEPT !.bound =
                     Put(@, [key |-> kid, args |-> KernelBound(c, as, kid, n)])]

\* std::snprintf("%d", n) for n >= 0: the decimal digits of n
DecimalDigits == << "0", "1", "2", "3", "4", "5", "6", "7", "8", "9" >>

RECURSIVE Decimal(_)
Decimal(n) ==
  IF n < 10 THEN << DecimalDigits[n + 1] >>
  ELSE Decimal(n \div 10) \o << DecimalDigits[(n % 10) + 1] >>

\* what the hblas operators pass AddTask as pathToProgram and compileOptions:
\* "hblas.cl" with "-D VAR_TYPE=%s" for operator+ and operator-, and with
\* "-D BLOCK_SIZE=%d -D VAR_TYPE=%s" for operator*; the element type is int
HblasProgram(op, block_size) ==
  [path |-> << "hblas.cl" >>,
   options |-> IF op = "matrix_mul"
               THEN << "-D BLOCK_SIZE=" >> \o Decimal(block_size)
                      \o << " -D VAR_TYPE=", "int" >>
               ELSE << "-D VAR_TYPE=", "int" >>]

\* ------------------------------------------------------------ hblas::Matrix
\* operator+, operator-, operator* on cl_future<Matrix>: the operands' arrays
\* become IN arguments, a fresh Matrix res the OUT argument, and the result is
\* cl_future(std::move(res), future.buffers(), future.event()).  An operand is
\* a live handle f, or m.future() of a caller's matrix m (an Immediate
\* handle that is a temporary of the expression).  The matrices are 1 x 1.
\* operator* takes block_size from the Matrix the left operand stores: 0 for
\* the result of an operator (Matrix res(rows, cols)), and bs for a matrix of
\* the caller, who sets it by the constructor or through block_size(); it
\* passes cl::Local(block_size * block_size) twice and enqueues on
\* NDRange(m2_cols, m1_rows) with work-groups of (block_size, block_size).
\* When AddTask throws, res and the buffers made so far are released.
MatrixOperands ==
  {[m |-> a, f |-> 0] : a \in {a \in 1..Len(harr) : harr[a].user}}
  \cup {[m |-> futs[f].arrs[1], f |-> f] :
          f \in {f \in 1..Len(futs) : /\ futs[f].live
                                       /\ futs[f].cls = "cl_future"
                                       /\ futs[f].holds = "matrix"}}

MatrixOp(op, x1, x2, bs) ==
  /\ host.api = "hblas"
  /\ host.st = "idle"
  /\ ncalls < MaxCalls
  /\ (op # "matrix_mul" \/ x1.f # 0) => bs = 0
  /\ LET res == Len(harr) + 1
         h == Append(harr, NewBlock(FALSE, Undef))
         base3 == << [io |-> "IN", data |-> x1.m, sval |-> 0],
                     [io |-> "IN", data |-> x2.m, sval |-> 0],
                     [io |-> "OUT", data |-> res, sval |-> 0] >>
         mulTail == << [io |-> "LOCALE", data |-> 0, sval |-> 0],
                       [io |-> "LOCALE", data |-> 0, sval |-> 0],
                       [io |-> "VAR", data |-> 0, sval |-> 1],
                       [io |-> "VAR", data |-> 0, sval |-> 1] >>
         as == IF op = "matrix_mul" THEN base3 \o mulTail ELSE base3
         deps == {futs[x.f].event : x \in {y \in {x1, x2} : y.f # 0 /\ futs[y.f].is_event_set}}
         err == IF op = "matrix_mul" THEN MulDispatchError(1, 1, bs)
                ELSE EnqueueNDRangeKernel(<<1, 1>>, <<>>)
     IN IF err = "ok"
        THEN AddTask(cache, h, as, HblasProgram(op, bs), op, deps, "matrix")
        ELSE AddTaskThrows(cache, h, as, HblasProgram(op, bs), op, MulBound(bs), err)
  /\ UNCHANGED <<args, task, oclTask, ctx, dmat, thr>>

\* ------------------------------------------------------------ Queue (queue.h)
\* ExtractEvents(args...): the event of every handle passed after the grid
ExtractEvents(deps) == {futs[f].event : f \in deps}

\* Queue::CreateTask(program, kernel, options, args...) followed by
\* Queue::EnqueueTask(task, grid, deps...): the Task binds the arguments by
\* position, the kernel is enqueued with the dependencies' events as its
\* wait-list, and the handle future(task.output(), event) is returned.  h and d
\* are the host store and the buffers at the call; an argument's data is the
\* index of its cl::Buffer.
EnqueueTask(h, d, as, kname, deps, holds) ==
  LET t == TaskCtor(as)
      call == ncalls + 1
      kc == Len(cmds) + 1
      params == [k \in 1..Len(t.kargs) |->
                   [idx |-> t.kargs[k][1], io |-> as[k].io,
                    buf |-> t.kargs[k][2], sval |-> 0]]
      events == ExtractEvents(deps)
      kernel == [NewCmd("queue", "kernel", call, events)
                   EXCEPT !.kname = kname, !.params = params, !.deps = events]
  IN /\ harr' = h
     /\ dbuf' = d
     /\ ncalls' = call
     /\ cmds' = Append(cmds, kernel)
     /\ futs' = Append(futs, NewFuture("future", holds, call, kc, TRUE,
                                       <<>>, t.output))
     /\ UNCHANGED host

\* the cl::Buffer objects a variable of the caller holds (BufferArg, DMatrix)
UserBuffers == {b \in 1..Len(dbuf) : dbuf[b].user}

\* the caller wraps two of its buffers as IN arguments, creates an OUT
\* argument with CreateKernelArg<T>(size, ArgType::OUT), and enqueues the task
\* with the handles in deps as dependencies (tests/queue.cc)
UserEnqueueTask(x1, x2, deps) ==
  /\ host.api = "Queue"
  /\ host.st = "idle"
  /\ ncalls < MaxCalls
  /\ LET out == Len(dbuf) + 1
         as == << [io |-> "IN", data |-> x1], [io |-> "IN", data |-> x2],
                  [io |-> "OUT", data |-> out] >>
     IN EnqueueTask(harr, Append(dbuf, NewBuffer(Undef, 0, TRUE)), as,
                    "vector_add", deps, "buffers")
  /\ UNCHANGED bindVars

\* ------------------------------------------------------------ DMatrix (dmatrix.h)
\* operator+, operator-, operator* on DMatrix: the operands' buffers are IN
\* arguments and a new WRITE_ONLY buffer the OUT argument.  operator* also
\* passes m1_param and m2_param, two locals of the operator, through buffers
\* created with CL_MEM_USE_HOST_PTR; the locals are gone when it returns.  The
\* result is future<DMatrix>(DMatrix(rows, cols, out.data()), f.event()).
\* operator+ and operator- enqueue on Grid(NDRange(rows, cols)); operator*
\* enqueues on NDRange(m2.cols, m1.rows) with work-groups of
\* MatrixQueue::block_size squared, and when enqueueNDRangeKernel throws the
\* buffers of the operator are released with nothing submitted.
DMatrixOp(op, d1, d2) ==
  /\ host.api = "Queue"
  /\ host.st = "idle"
  /\ ncalls < MaxCalls
  /\ LET out == Len(dbuf) + 1
         p1 == Len(harr) + 1
         p2 == Len(harr) + 2
         In(b) == [io |-> "IN", data |-> b]
         Out(b) == [io |-> "OUT", data |-> b]
         h == harr \o << NewBlock(FALSE, Val(1)), NewBlock(FALSE, Val(1)) >>
         d == dbuf \o << NewBuffer(Undef, 0, FALSE), NewBuffer(Val(1), p1, FALSE),
                         NewBuffer(Val(1), p2, FALSE) >>
         err == EnqueueNDRangeKernel(<<host.dim, host.dim>>,
                                     <<MatrixQueueBlockSize, MatrixQueueBlockSize>>)
     IN IF op = "matrix_mul"
        THEN IF err = "ok"
             THEN EnqueueTask(h, d,
                              << In(d1), In(out + 1), In(d2), In(out + 2), Out(out) >>,
                              op, {}, "dmatrix")
             ELSE DispatchThrows(h, d, err)
        ELSE EnqueueTask(harr, Append(dbuf, NewBuffer(Undef, 0, FALSE)),
                         << In(d1), In(d2), Out(out) >>, op, {}, "dmatrix")
  /\ UNCHANGED bindVars

\* DMatrix::ToHost(BlockingType::Unblock): a new shared_array is the target
\* of a non-blocking enqueueReadBuffer of the matrix's buffer; the handle
\* future<Matrix>(Matrix(rows, cols, data), f.event()) stores the array.
ToHost(b) ==
  /\ host.api = "Queue"
  /\ host.st = "idle"
  /\ ncalls < MaxCalls
  /\ LET data == Len(harr) + 1
         call == ncalls + 1
         kc == Len(cmds) + 1
     IN /\ harr' = Append(harr, NewBlock(FALSE, Undef))
        /\ cmds' = Append(cmds, [NewCmd("queue", "read", call, {})
                                  EXCEPT !.buf = b, !.own = b, !.arr = data])
        /\ futs' = Append(futs, NewFuture("future", "matrix", call, kc, TRUE,
                                          << data >>, <<>>))
        /\ ncalls' = call
  /\ UNCHANGED <<dbuf, host>>
  /\ UNCHANGED bindVars

\* the caller's host matrices
UserMatrices == {a \in 1..Len(harr) : harr[a].user}

\* DMatrix::UpdateData(m, BlockingType::Unblock) on a device matrix of the
\* same shape: a non-blocking enqueueWriteBuffer from m.data() into buffer_;
\* the handle future<DMatrix>(DMatrix(rows, cols, buffer_), f.event()) stores
\* the buffer and not the array.
UpdateData(b, a) ==
  /\ host.api = "Queue"
  /\ host.st = "idle"
  /\ ncalls < MaxCalls
  /\ LET call == ncalls + 1
         kc == Len(cmds) + 1
     IN /\ cmds' = Append(cmds, [NewCmd("queue", "write", call, {})
                                  EXCEPT !.buf = b, !.own = b, !.arr = a])
        /\ futs' = Append(futs, NewFuture("future", "dmatrix", call, kc, TRUE,
                                          <<>>, << b >>))
        /\ ncalls' = call
  /\ UNCHANGED <<harr, dbuf, host>>
  /\ UNCHANGED bindVars

\* ------------------------------------------------------------ handles
\* whether get() / wait() has an event to wait on:
\*   cl_future:        if (is_event_set_) event_.wait();
\*   oclalgo::future:  if (event_()) event_.wait(); else throw CL_INVALID_EVENT
NeedsWaitNeverMut(f) == FALSE

NeedsWaitAlwaysMut(f) == TRUE

NeedsWait(f) ==
  IF futs[f].cls = "cl_future" THEN futs[f].is_event_set ELSE futs[f].event # 0

\* the handle's view of its result at the moment get() / wait() returns
Seen(f) == [k \in 1..Len(futs[f].arrs) |-> BlockRead(harr, futs[f].arrs[k])]

\* get() hands the stored result to the caller, who then shares the arrays;
\* cl_future<Matrix>::get() returns a copy-constructed Matrix, which has its
\* own array, so the caller shares nothing with the handle
Delivered(f, op) ==
  [a \in 1..Len(harr) |->
     IF /\ op = "get"
        /\ a \in SeqRange(futs[f].arrs)
        /\ ~(futs[f].cls = "cl_future" /\ futs[f].holds = "matrix")
     THEN [harr[a] EXCEPT !.user = TRUE] ELSE harr[a]]

\* oclalgo::future::get() moves the stored result out: a vector of buffers or
\* a DMatrix becomes the caller's
DeliveredBufs(f, op) ==
  [b \in 1..Len(dbuf) |->
     IF op = "get" /\ futs[f].cls = "future" /\ b \in SeqRange(futs[f].bufs)
     THEN [dbuf[b] EXCEPT !.user = TRUE] ELSE dbuf[b]]

\* without an event to wait on, oclalgo::future throws
\* cl::Error(CL_INVALID_EVENT, ...) and cl_future goes on to return
NullEventThrowsNeverMut(f) == FALSE

NullEventThrows(f) == futs[f].cls = "future"

\* the handle after get() / wait() has returned: oclalgo::future::get()
\* returns std::move(future_result_), which empties a std::vector<cl::Buffer>,
\* resets the cl::Buffer of a DMatrix and, by oclalgo::Matrix(Matrix&&),
\* resets the array of a Matrix (a shared_array has no move constructor and
\* stays with the handle); cl_future::get() returns a copy of stored_data_
Returned(f, op) ==
  [futs[f] EXCEPT !.waited = TRUE,
                  !.seen = Seen(f),
                  !.given = IF op = "get" /\ futs[f].cls = "future"
                            THEN @ \o futs[f].bufs ELSE @,
                  !.arrs = IF op = "get" /\ futs[f].cls = "future"
                              /\ futs[f].holds # "array" THEN <<>> ELSE @,
                  !.bufs = IF op = "get" /\ futs[f].cls = "future" THEN <<>> ELSE @]

\* the caller enters f.get() or f.wait(): with an event to wait on the thread
\* blocks in cl::Event::wait(); a cl_future without one returns at once; an
\* oclalgo::future without one throws
FutureCall(f, op) ==
  /\ host.st = "idle"
  /\ futs[f].live
  /\ IF NeedsWait(f)
     THEN /\ host' = [host EXCEPT !.st = "blocked", !.f = f, !.op = op]
          /\ UNCHANGED <<harr, dbuf, futs>>
     ELSE IF NullEventThrows(f)
     THEN /\ host' = [host EXCEPT !.st = "failed", !.f = f, !.op = op,
                                  !.err = "CL_INVALID_EVENT"]
          /\ UNCHANGED <<harr, dbuf, futs>>
     ELSE /\ futs' = [futs EXCEPT ![f] = Returned(f, op)]
          /\ harr' = Delivered(f, op)
          /\ dbuf' = DeliveredBufs(f, op)
          /\ UNCHANGED host
  /\ UNCHANGED <<cmds, ncalls>>
  /\ UNCHANGED bindVars

\* the exception leaves get() / wait() and the caller handles it
CatchError ==
  /\ host.st = "failed"
  /\ host' = [host EXCEPT !.st = "idle", !.f = 0, !.op = "none", !.err = "none"]
  /\ UNCHANGED <<harr, dbuf, cmds, futs, ncalls>>
  /\ UNCHANGED bindVars

\* cl::Event::wait() returns once the event is complete
FutureReturn ==
  /\ host.st = "blocked"
  /\ EventFired(futs[host.f].event)
  /\ futs' = [futs EXCEPT ![host.f] = Returned(host.f, host.op)]
  /\ harr' = Delivered(host.f, host.op)
  /\ dbuf' = DeliveredBufs(host.f, host.op)
  /\ host' = [host EXCEPT !.st = "idle", !.f = 0, !.op = "none"]
  /\ UNCHANGED <<cmds, ncalls>>
  /\ UNCHANGED bindVars

\* ~cl_future() / ~future() = default: the handle goes away and drops what it
\* stored, without waiting
FutureDestroy(f) ==
  /\ host.st = "idle"
  /\ futs[f].live
  /\ futs' = [futs EXCEPT ![f].live = FALSE]
  /\ UNCHANGED <<harr, dbuf, cmds, host, ncalls>>
  /\ UNCHANGED bindVars

\* what a handle owns: its stored result and kept-alive buffers and its signal
Owned(h) == [arrs |-> h.arrs, bufs |-> h.bufs, event |-> h.event,
             is_event_set |-> h.is_event_set]

\* Matrix::future(): Matrix<T> m(rows_, cols_, block_size_, data_);
\* return cl_future<Matrix<T>>(std::move(m)).  The only one-argument
\* constructor is cl_future(const T& data), so stored_data_ is copy-constructed:
\* a new array with the matrix's content; is_event_set_ is false.
MatrixFuture(a) ==
  /\ host.api = "hblas"
  /\ host.st = "idle"
  /\ Len(futs) < MaxHandles
  /\ harr' = Append(harr, NewBlock(FALSE, BlockRead(harr, a)))
  /\ futs' = Append(futs, NewFuture("cl_future", "matrix", 0, 0, FALSE,
                                    << Len(harr) + 1 >>, <<>>))
  /\ UNCHANGED <<dbuf, cmds, host, ncalls>>
  /\ UNCHANGED bindVars

\* the caller edits its hblas::Matrix m (block a) between two calls.
\* m(i, j) = v for its elements: T& operator()(i, j) is a reference into
\* data_, the array every copy of data_ shares
HblasMatrixStore(a, v) ==
  /\ host.api = "hblas"
  /\ host.st = "idle"
  /\ host.edits < MaxEdits
  /\ BlockRead(harr, a) # Val(v)
  /\ harr' = [harr EXCEPT ![a].def = TRUE, ![a].val = v]
  /\ host' = [host EXCEPT !.edits = @ + 1]
  /\ UNCHANGED <<dbuf, cmds, futs, ncalls>>
  /\ UNCHANGED bindVars

\* m.resize(rows, cols) and m.resize(rows, cols, block_size):
\* data_.reset(new T[rows_ * cols_], rows_ * cols_), an array nothing has
\* written; the array m had loses this owner
HblasMatrixResize(a) ==
  /\ host.api = "hblas"
  /\ host.st = "idle"
  /\ host.edits < MaxEdits
  /\ harr' = Append([harr EXCEPT ![a].user = FALSE], NewBlock(TRUE, Undef))
  /\ host' = [host EXCEPT !.edits = @ + 1]
  /\ UNCHANGED <<dbuf, cmds, futs, ncalls>>
  /\ UNCHANGED bindVars

\* m = w, operator=(const Matrix&) with this != &w: T* ptr = new T[...];
\* std::copy(w.data_ ...); data_.reset(ptr, ...), a new array with what w's
\* array holds at that moment.  w is another matrix of the caller or
\* f.stored_data() of a live handle.
HblasMatrixAssign(a, w) ==
  /\ host.api = "hblas"
  /\ host.st = "idle"
  /\ host.edits < MaxEdits
  /\ w.m # a
  /\ harr' = Append([harr EXCEPT ![a].user = FALSE],
                    NewBlock(TRUE, BlockRead(harr, w.m)))
  /\ host' = [host EXCEPT !.edits = @ + 1]
  /\ UNCHANGED <<dbuf, cmds, futs, ncalls>>
  /\ UNCHANGED bindVars

\* m.transpose(): new_data gets the elements in transposed order, rows_ and
\* cols_ are swapped and data_ = new_data is shared_array::operator=, which
\* assigns only if (array != *this).  The transposed elements of a 1 x 1
\* matrix are its elements, so m keeps its array and its content.
HblasMatrixTranspose(a) ==
  /\ host.api = "hblas"
  /\ host.st = "idle"
  /\ host.edits < MaxEdits
  /\ host' = [host EXCEPT !.edits = @ + 1]
  /\ UNCHANGED <<harr, dbuf, cmds, futs, ncalls>>
  /\ UNCHANGED bindVars

\* a handle is move-constructed from handle f.
\*   future(future&& f): takes f's result, stored object and event, then
\*     resets f to T(), U(), cl::Event();
\*   cl_future(cl_future&& other): initialises every member from other's as a
\*     copy (other is an lvalue in the initialisers) and leaves other as it
\*     was; the copy of a Matrix has a new array with the content other's
\*     array has at that moment.
FutureMove(f) ==
  /\ host.st = "idle"
  /\ futs[f].live
  /\ Len(futs) < MaxHandles
  /\ LET src == futs[f]
         deep == src.cls = "cl_future" /\ src.holds = "matrix"
         h == IF deep THEN Append(harr, NewBlock(FALSE, BlockRead(harr, src.arrs[1])))
              ELSE harr
         arrs == IF deep THEN << Len(harr) + 1 >> ELSE src.arrs
         srcAfter == IF src.cls = "future"
                     THEN [src EXCEPT !.arrs = <<>>, !.bufs = <<>>, !.event = 0,
                                      !.waited = FALSE, !.seen = <<>>]
                     ELSE src
         dst == NewFuture(src.cls, src.holds, src.call, src.event,
                          src.is_event_set, arrs, src.bufs)
     IN /\ harr' = h
        /\ futs' = Append([futs EXCEPT ![f] = srcAfter],
                          [dst EXCEPT !.from = f,
                                      !.moved = << Owned(src), Owned(srcAfter),
                                                   Owned(dst) >>])
  /\ UNCHANGED <<dbuf, cmds, host, ncalls>>
  /\ UNCHANGED bindVars

\* the caller's own shared_array, Matrix, BufferArg and DMatrix variables go
\* out of scope
UserScopeExit ==
  /\ host.st = "idle"
  /\ \/ \E a \in 1..Len(harr) : harr[a].user
     \/ UserBuffers # {}
  /\ harr' = [a \in 1..Len(harr) |-> [harr[a] EXCEPT !.user = FALSE]]
  /\ dbuf' = [b \in 1..Len(dbuf) |-> [dbuf[b] EXCEPT !.user = FALSE]]
  /\ UNCHANGED <<cmds, futs, host, ncalls>>
  /\ UNCHANGED bindVars

\* ------------------------------------------------------------ binding actions
\* the program and the entry point the binding model builds its Task from
BindProgram == [path |-> << "a" >>, options |-> <<>>]

\* the program its AddTask call names: programs_ of the Queue and of the
\* OpenCLQueue are two maps, kept apart in the one record by their keys
OclBindProgram == [path |-> << "b" >>, options |-> <<>>]

BindKernel == << "k" >>

\* Queue::CreateTask(programName, kernelName, options, args...): the program
\* is looked up or built and stored in programs_ (a failed build rethrows and
\* no task is made), then return Task(kernel, args...).  The call is
\* well-formed for packs of buffer arguments only.
CreateTaskBind(pair, entry, ok) ==
  /\ host.st = "idle"
  /\ ~task.built
  /\ TaskArgsCompile(args)
  /\ cache.nreq < MaxRequests
  /\ cache' = CreateTaskCompile(cache, pair, entry, ok)
  /\ task' = IF cache'.last.result = "ok" THEN TaskCtor(args) ELSE task
  /\ UNCHANGED <<args, oclTask, ctx, dmat, thr>>
  /\ UNCHANGED engineVars

\* Task::clear(): kernel_ = cl::Kernel(); buffers_.clear(); output_.clear()
TaskClear ==
  /\ host.st = "idle"
  /\ task.built
  /\ task' = NoTask
  /\ UNCHANGED <<args, oclTask, cache, ctx, dmat, thr>>
  /\ UNCHANGED engineVars

\* what the call has done when it leaves: SetKernelArgs has bound the whole
\* pack, GetResults has enqueued nreads read-backs, and the tuple is composed
\* only when the call gets as far as its return statement
AddTaskDone(plan, nreads, returned) ==
  [plan EXCEPT !.reads = SubSeq(@, 1, nreads),
               !.tuple = IF returned THEN @ ELSE <<>>,
               !.returned = returned]

\* OpenCLQueue::AddTask(pathToProgram, kernelName, compileOptions, offset,
\* global, local, args...) on the argument list `args`, well-formed for
\* non-empty packs only.  The caller has one array per buffer argument
\* (inputs filled with FillVal) and FillVal in every scalar.  The program is
\* looked up in programs_ or built (ok: whether the source builds) and the
\* kernel object looked up in kernels_ or created, as in AddTaskCompile; a
\* cl::Error from there leaves the call with nothing bound or submitted.
\* Otherwise SetKernelArgs, enqueueNDRangeKernel, GetResults and
\* ComposeOutTuple follow, as in AddTask.  On a null cl::Kernel found in
\* kernels_ SetKernelArgs creates the buffer of a first IN, IN_OUT or OUT
\* argument before its kernel->setArg throws CL_INVALID_KERNEL.  The caller
\* makes at most MaxRequests calls, and at most MaxCalls once a call has
\* bound its pack.
AddTaskBind(pair, entry, ok) ==
  /\ host.st = "idle"
  /\ AddTaskArgsCompile(args)
  /\ cache.nreq < MaxRequests
  /\ oclTask.built => ncalls < MaxCalls
  /\ \E ins \in BOOLEAN :
       LET c == AddTaskCompile(cache, pair, entry, ok, ins)
           n == Len(args)
           bpos == SelectSeq([i \in 1..n |-> i], LAMBDA i : IsBufferArg(args[i]))
           BlockOfPos(p) == LET js == {j \in 1..Len(bpos) : bpos[j] = p}
                            IN IF js = {} THEN 0
                               ELSE Len(harr) + (CHOOSE j \in js : TRUE)
           h == harr \o [j \in 1..Len(bpos) |->
                           NewBlock(TRUE, IF args[bpos[j]].io = "OUT"
                                          THEN Undef ELSE Val(FillVal))]
           as == [i \in 1..n |-> [io |-> args[i].io, data |-> BlockOfPos(i),
                                  sval |-> FillVal]]
           first == IF IsBufferArg(as[1])
                    THEN << SetKernelArgsBuffer(h, as[1]) >> ELSE <<>>
       IN IF c.last.result = "ok"
          THEN /\ AddTask(c, h, as, pair, Head(entry), {}, "tuple")
               /\ oclTask' = AddTaskDone(AddTaskPlan(args),
                                         Len(cmds') - Len(cmds) - 1,
                                         Len(futs') > Len(futs))
          ELSE /\ DispatchThrows(h, IF c.last.err = "invalid_kernel"
                                    THEN dbuf \o first ELSE dbuf,
                                 c.last.err)
               /\ cache' = c
               /\ UNCHANGED oclTask
  /\ UNCHANGED <<args, task, ctx, dmat, thr>>

NextBind ==
  \/ \E ok \in BOOLEAN : CreateTaskBind(BindProgram, BindKernel, ok)
  \/ TaskClear
  \/ \E ok \in BOOLEAN : AddTaskBind(OclBindProgram, BindKernel, ok)
  \/ CatchError

SpecBind == InitBind /\ [][NextBind]_vars

\* ------------------------------------------------------------ specification
\* A run drives one queue object: a caller's OpenCLQueue (AddTask), the
\* hblas DeviceQueue singleton (Matrix operators), or a Queue / MatrixQueue
\* (EnqueueTask, DMatrix).  With hblas and Queue the caller starts with
\* NumMatrices host matrices; with Queue each is also wrapped by
\* DMatrix(const Matrix&), a CL_MEM_USE_HOST_PTR buffer over its array.
Init ==
  /\ args = <<>>
  /\ task = NoTask
  /\ oclTask = NoOclTask
  /\ cache = NoCache
  /\ ctx = NoCtx
  /\ dmat = NoDMatrix
  /\ thr = NoThread
  /\ \E api \in {"OpenCLQueue", "hblas", "Queue"} :
       /\ \E n \in (IF api = "Queue" THEN MatrixDims ELSE {1}) :
            host = [NoHost EXCEPT !.api = api, !.dim = n]
       /\ harr = IF api = "OpenCLQueue" THEN <<>>
                 ELSE [a \in 1..NumMatrices |-> NewBlock(TRUE, Val(FillVal + a))]
       /\ dbuf = IF api = "Queue"
                 THEN [a \in 1..NumMatrices |-> NewBuffer(Val(FillVal + a), a, TRUE)]
                 ELSE <<>>
  /\ cmds = <<>>
  /\ futs = <<>>
  /\ ncalls = 0

Next ==
  \/ \E kinds \in UserArgLists : UserAddTask(kinds)
  \/ \E op \in {"matrix_add", "matrix_sub", "matrix_mul"} :
       \E x1 \in MatrixOperands, x2 \in MatrixOperands :
         \E bs \in BlockSizes : MatrixOp(op, x1, x2, bs)
  \/ \E op \in {"matrix_add", "matrix_sub", "matrix_mul"} :
       \E d1 \in UserBuffers, d2 \in UserBuffers : DMatrixOp(op, d1, d2)
  \/ \E x1 \in UserBuffers, x2 \in UserBuffers :
       \E deps \in SUBSET {f \in 1..Len(futs) : futs[f].live} :
         UserEnqueueTask(x1, x2, deps)
  \/ \E b \in UserBuffers : ToHost(b)
  \/ \E b \in UserBuffers, a \in UserMatrices : UpdateData(b, a)
  \/ \E f \in 1..Len(futs) : \E op \in {"get", "wait"} : FutureCall(f, op)
  \/ FutureReturn
  \/ CatchError
  \/ \E a \in UserMatrices : HblasMatrixStore(a, StoreVal)
  \/ \E a \in UserMatrices : HblasMatrixResize(a)
  \/ \E a \in UserMatrices, w \in MatrixOperands : HblasMatrixAssign(a, w)
  \/ \E a \in UserMatrices : HblasMatrixTranspose(a)
  \/ \E f \in 1..Len(futs) : FutureDestroy(f)
  \/ UserScopeExit
  \/ \E c \in 1..Len(cmds) : DeviceStart(c)
  \/ \E c \in 1..Len(cmds) : DeviceComplete(c)

Spec == Init /\ [][Next]_vars

\* the device keeps executing the commands it can execute, and
\* cl::Event::wait() returns once the event is complete
DeviceStep ==
  \E c \in 1..Len(cmds) : DeviceStart(c) \/ DeviceComplete(c)

SpecLive ==
  /\ Init
  /\ [][Next]_vars
  /\ WF_vars(DeviceStep)
  /\ WF_vars(FutureReturn)

\* the synchronisation model: dispatch through OpenCLQueue::AddTask or
\* through Queue (EnqueueTask, asynchronous read-back), the device, and
\* get() / wait(); no storage is released
InitSync ==
  /\ Init
  /\ host.api \in {"OpenCLQueue", "Queue"}

NextSync ==
  \/ \E kinds \in UserArgLists : UserAddTask(kinds)
  \/ \E x1 \in UserBuffers, x2 \in UserBuffers :
       \E deps \in SUBSET {f \in 1..Len(futs) : futs[f].live} :
         UserEnqueueTask(x1, x2, deps)
  \/ \E b \in UserBuffers : ToHost(b)
  \/ \E f \in 1..Len(futs) : \E op \in {"get", "wait"} : FutureCall(f, op)
  \/ FutureReturn
  \/ CatchError
  \/ \E c \in 1..Len(cmds) : DeviceStart(c)
  \/ \E c \in 1..Len(cmds) : DeviceComplete(c)

SpecSync == InitSync /\ [][NextSync]_vars

\* the handle model: operations that return each kind of handle
\* (cl_future from AddTask, Matrix::future(), future<Matrix> from ToHost,
\* future<DMatrix> from UpdateData), the device, and the caller's use of the
\* handles: get(), wait(), move construction
NextHandle ==
  \/ \E kinds \in UserArgLists : UserAddTask(kinds)
  \/ \E a \in UserMatrices : MatrixFuture(a)
  \/ \E a \in UserMatrices : HblasMatrixStore(a, StoreVal)
  \/ \E a \in UserMatrices : HblasMatrixResize(a)
  \/ \E a \in UserMatrices, w \in MatrixOperands : HblasMatrixAssign(a, w)
  \/ \E a \in UserMatrices : HblasMatrixTranspose(a)
  \/ \E b \in UserBuffers : ToHost(b)
  \/ \E b \in UserBuffers, a \in UserMatrices : UpdateData(b, a)
  \/ \E f \in 1..Len(futs) : \E op \in {"get", "wait"} : FutureCall(f, op)
  \/ FutureReturn
  \/ CatchError
  \/ \E f \in 1..Len(futs) : FutureMove(f)
  \/ \E c \in 1..Len(cmds) : DeviceStart(c)
  \/ \E c \in 1..Len(cmds) : DeviceComplete(c)

SpecHandle == Init /\ [][NextHandle]_vars

\* the signal model: handles with a completion signal (future<Matrix> from
\* DMatrix::ToHost), without one (Matrix::future()) and with a default one
\* (moved-from), and get() / wait() on them
InitSignal ==
  /\ Init
  /\ host.api \in {"hblas", "Queue"}

NextSignal ==
  \/ \E a \in UserMatrices : MatrixFuture(a)
  \/ \E a \in UserMatrices : HblasMatrixStore(a, StoreVal)
  \/ \E a \in UserMatrices : HblasMatrixResize(a)
  \/ \E a \in UserMatrices, w \in MatrixOperands : HblasMatrixAssign(a, w)
  \/ \E a \in UserMatrices : HblasMatrixTranspose(a)
  \/ \E b \in UserBuffers : ToHost(b)
  \/ \E f \in 1..Len(futs) : \E op \in {"get", "wait"} : FutureCall(f, op)
  \/ FutureReturn
  \/ CatchError
  \/ \E f \in 1..Len(futs) : FutureMove(f)
  \/ \E c \in 1..Len(cmds) : DeviceStart(c)
  \/ \E c \in 1..Len(cmds) : DeviceComplete(c)

SpecSignal == InitSignal /\ [][NextSignal]_vars

\* ------------------------------------------------------------ element-wise add
\* the largest value the caller stores in an input array
MaxVal == 1

InputVals == 0..MaxVal

AddKernels == {"vector_add", "matrix_add"}

\* the program file each test names for its kernel; no compile options
AddTestProgram(kname) ==
  [path |-> IF kname = "vector_add" THEN << "vector_add.cl" >> ELSE << "hblas.cl" >>,
   options |-> <<>>]

\* TEST(OpenCLQueue, VectorAdd) and TEST(OpenCLQueue, MatrixAdd): the caller
\* allocates a, b and c, fills a and b, wraps them as cl_data_t IN, IN, OUT
\* and calls queue.AddTask(..., d_a, d_b, d_c); sval records what the caller
\* stored in the array
OclAddTest(kname, va, vb) ==
  /\ host.api = "OpenCLQueue"
  /\ host.st = "idle"
  /\ ncalls < MaxCalls
  /\ LET a == Len(harr) + 1
         h == harr \o << NewBlock(TRUE, Val(va)), NewBlock(TRUE, Val(vb)),
                         NewBlock(TRUE, Undef) >>
         as == << [io |-> "IN", data |-> a, sval |-> va],
                  [io |-> "IN", data |-> a + 1, sval |-> vb],
                  [io |-> "OUT", data |-> a + 2, sval |-> 0] >>
     IN /\ AddTask(cache, h, as, AddTestProgram(kname), kname, {}, "tuple")
        /\ args' = Append(args, as)
  /\ UNCHANGED <<task, oclTask, ctx, dmat, thr>>

\* TEST(Queue, VectorAdd) and TEST(Queue, MatrixAdd): a_arg and b_arg are
\* CreateKernelArg(array, ArgType::IN), READ_ONLY | USE_HOST_PTR buffers over
\* the caller's arrays; c_arg is CreateKernelArg<int>(size, ArgType::OUT), a
\* WRITE_ONLY buffer; then CreateTask and EnqueueTask(task, grid)
QueueAddTest(kname, va, vb) ==
  /\ host.api = "Queue"
  /\ host.st = "idle"
  /\ ncalls < MaxCalls
  /\ LET a == Len(harr) + 1
         b == Len(dbuf) + 1
         h == harr \o << NewBlock(TRUE, Val(va)), NewBlock(TRUE, Val(vb)) >>
         d == dbuf \o << NewBuffer(Val(va), a, TRUE), NewBuffer(Val(vb), a + 1, TRUE),
                         NewBuffer(Undef, 0, TRUE) >>
         as == << [io |-> "IN", data |-> b, sval |-> va],
                  [io |-> "IN", data |-> b + 1, sval |-> vb],
                  [io |-> "OUT", data |-> b + 2, sval |-> 0] >>
     IN /\ EnqueueTask(h, d, as, kname, {}, "buffers")
        /\ args' = Append(args, as)
  /\ UNCHANGED <<task, oclTask, cache, ctx, dmat, thr>>

InitAdd ==
  /\ Init
  /\ host.api \in {"OpenCLQueue", "Queue"}

NextAdd ==
  \/ \E kname \in AddKernels : \E va \in InputVals, vb \in InputVals :
       OclAddTest(kname, va, vb)
  \/ \E kname \in AddKernels : \E va \in InputVals, vb \in InputVals :
       QueueAddTest(kname, va, vb)
  \/ \E f \in 1..Len(futs) : FutureCall(f, "get")
  \/ FutureReturn
  \/ \E c \in 1..Len(cmds) : DeviceStart(c)
  \/ \E c \in 1..Len(cmds) : DeviceComplete(c)

SpecAdd == InitAdd /\ [][NextAdd]_vars

\* ------------------------------------------------------------ element counts
Sizes == 0..MaxLen

\* cl::Buffer::Buffer(context, flags, size, host_ptr): clCreateBuffer fails
\* with CL_INVALID_BUFFER_SIZE when size is 0, and detail::errHandler throws
\* it as cl::Error
BufferCtor(memsize) == IF memsize = 0 THEN "CL_INVALID_BUFFER_SIZE" ELSE "ok"

\* the caller allocates arrays a and c of n elements and calls
\* queue.AddTask("copy.cl", "copy", ..., cl::NDRange(n), ..., IN a, OUT c):
\* SetKernelArgs creates the buffer of a with
\* cl::Buffer(context_, READ_ONLY | COPY_HOST_PTR, clData.host_array.memsize(), ...)
OclCopySized(n, va) ==
  /\ host.api = "OpenCLQueue"
  /\ host.st = "idle"
  /\ ncalls < MaxCalls
  /\ LET a == Len(harr) + 1
         h == harr \o << NewBlock(TRUE, Val(va)), NewBlock(TRUE, Undef) >>
         as == << [io |-> "IN", data |-> a, sval |-> va, size |-> n],
                  [io |-> "OUT", data |-> a + 1, sval |-> 0, size |-> n] >>
         prog == [path |-> << "copy.cl" >>, options |-> <<>>]
     IN /\ IF BufferCtor(n) = "ok"
           THEN AddTask(cache, h, as, prog, "copy", {}, "tuple")
           ELSE AddTaskThrows(cache, h, as, prog, "copy", 0, BufferCtor(n))
        /\ args' = Append(args, as)
  /\ UNCHANGED <<task, oclTask, ctx, dmat, thr>>

\* the same through Queue: CreateKernelArg(a, ArgType::IN) is
\* cl::Buffer(context_, READ_ONLY | USE_HOST_PTR, array.memsize(), ...),
\* CreateKernelArg<int>(n, ArgType::OUT) is
\* cl::Buffer(context_, WRITE_ONLY, size * sizeof(T)); then CreateTask and
\* EnqueueTask(task, Grid(cl::NDRange(n)))
QueueCopySized(n, va) ==
  /\ host.api = "Queue"
  /\ host.st = "idle"
  /\ ncalls < MaxCalls
  /\ LET a == Len(harr) + 1
         b == Len(dbuf) + 1
         h == Append(harr, NewBlock(TRUE, Val(va)))
         d == dbuf \o << NewBuffer(Val(va), a, TRUE), NewBuffer(Undef, 0, TRUE) >>
         as == << [io |-> "IN", data |-> b, sval |-> va, size |-> n],
                  [io |-> "OUT", data |-> b + 1, sval |-> 0, size |-> n] >>
     IN /\ IF BufferCtor(n) = "ok"
           THEN EnqueueTask(h, d, as, "copy", {}, "buffers")
           ELSE DispatchThrows(h, dbuf, BufferCtor(n))
        /\ args' = Append(args, as)
  /\ UNCHANGED <<task, oclTask, cache, ctx, dmat, thr>>

NextSized ==
  \/ \E n \in Sizes : \E va \in InputVals : OclCopySized(n, va)
  \/ \E n \in Sizes : \E va \in InputVals : QueueCopySized(n, va)
  \/ \E f \in 1..Len(futs) : FutureCall(f, "get")
  \/ FutureReturn
  \/ CatchError
  \/ \E c \in 1..Len(cmds) : DeviceStart(c)
  \/ \E c \in 1..Len(cmds) : DeviceComplete(c)

SpecSized == InitAdd /\ [][NextSized]_vars

\* ------------------------------------------------------------ DMatrix round trip
\* the shapes (rows, cols) of the caller's host matrices; Matrix() is 0 x 0
Shapes ==
  {s \in (0..MaxLen) \X (0..MaxLen) : s[1] * s[2] <= MaxLen /\ (s[1] = 0 <=> s[2] = 0)}

\* a Matrix<T>: rows_, cols_ and the block of data_.  load is 0 for a matrix
\* of the caller and, for a matrix made by ToHost, the load of the device
\* matrix it was read from; ret tells that ToHost() has returned it
NewMatrix(user, c, s, load) ==
  [user |-> user, def |-> c.def, val |-> c.val, rows |-> s[1], cols |-> s[2],
   load |-> load, ret |-> FALSE]

Elems(x) == x.rows * x.cols

\* the caller starts with NumMatrices + 1 host matrices and no device matrix
InitRound ==
  /\ args = <<>>
  /\ task = NoTask
  /\ oclTask = NoOclTask
  /\ cache = NoCache
  /\ ctx = NoCtx
  /\ dmat = NoDMatrix
  /\ thr = NoThread
  /\ host = [NoHost EXCEPT !.api = "Queue"]
  /\ \E shp \in [1..(NumMatrices + 1) -> Shapes] :
       harr = [a \in 1..(NumMatrices + 1) |->
                 NewMatrix(TRUE, Val(FillVal + a), shp[a], 0)]
  /\ dbuf = <<>>
  /\ cmds = <<>>
  /\ futs = <<>>
  /\ ncalls = 0

\* the caller's host matrices that are in scope
CallerMatrices == {a \in 1..Len(harr) : harr[a].user /\ harr[a].load = 0}

\* DMatrix<T> dm;
DMatrixDefault ==
  /\ host.st = "idle"
  /\ ~dmat.made
  /\ dmat' = [NoDMatrix EXCEPT !.made = TRUE]
  /\ UNCHANGED engineVars
  /\ UNCHANGED <<args, task, oclTask, cache, ctx, thr>>

\* DMatrix<T> dm(m): buffer_ = cl::Buffer(context, READ_WRITE | USE_HOST_PTR,
\* m.rows() * m.cols() * sizeof(T), m.data().get_raw()); when the constructor
\* throws there is no object
DMatrixFromMatrix(a) ==
  /\ host.st = "idle"
  /\ ~dmat.made
  /\ IF BufferCtor(Elems(harr[a])) = "ok"
     THEN /\ dbuf' = Append(dbuf, NewBuffer(BlockRead(harr, a), a, TRUE))
          /\ dmat' = [NoDMatrix EXCEPT !.made = TRUE, !.rows = harr[a].rows,
                                       !.cols = harr[a].cols,
                                       !.buffer = Len(dbuf) + 1, !.m = a,
                                       !.load = 1]
          /\ UNCHANGED host
     ELSE /\ host' = [host EXCEPT !.st = "failed", !.op = "DMatrix",
                                  !.err = BufferCtor(Elems(harr[a]))]
          /\ UNCHANGED <<dbuf, dmat>>
  /\ UNCHANGED <<harr, cmds, futs, ncalls>>
  /\ UNCHANGED <<args, task, oclTask, cache, ctx, thr>>

\* DMatrix<T> dm(rows, cols): buffer_ = cl::Buffer(context, READ_WRITE,
\* rows_ * cols_ * sizeof(T)), device memory nothing has written
DMatrixSized(s) ==
  /\ host.st = "idle"
  /\ ~dmat.made
  /\ IF BufferCtor(s[1] * s[2]) = "ok"
     THEN /\ dbuf' = Append(dbuf, NewBuffer(Undef, 0, TRUE))
          /\ dmat' = [NoDMatrix EXCEPT !.made = TRUE, !.rows = s[1],
                                       !.cols = s[2], !.buffer = Len(dbuf) + 1,
                                       !.load = 1]
          /\ UNCHANGED host
     ELSE /\ host' = [host EXCEPT !.st = "failed", !.op = "DMatrixSized",
                                  !.err = BufferCtor(s[1] * s[2])]
          /\ UNCHANGED <<dbuf, dmat>>
  /\ UNCHANGED <<harr, cmds, futs, ncalls>>
  /\ UNCHANGED <<args, task, oclTask, cache, ctx, thr>>

\* cl::Buffer buff = MatrixQueue::instance()->CreateBuffer(m.data(),
\* BufferType::ReadWrite), a READ_WRITE | USE_HOST_PTR buffer over m's array,
\* and DMatrix<T> dm(m.rows(), m.cols(), buff): rows_, cols_ and buffer_ are
\* the arguments (tests/dmatrix.cc, CtorFromBuffer); the constructor copies
\* the cl::Buffer handle, so the caller's variable buff holds the buffer too
DMatrixFromBuffer(a) ==
  /\ host.st = "idle"
  /\ ~dmat.made
  /\ IF BufferCtor(Elems(harr[a])) = "ok"
     THEN /\ dbuf' = Append(dbuf, NewBuffer(BlockRead(harr, a), a, TRUE))
          /\ dmat' = [NoDMatrix EXCEPT !.made = TRUE, !.rows = harr[a].rows,
                                       !.cols = harr[a].cols,
                                       !.buffer = Len(dbuf) + 1, !.load = 1,
                                       !.buff = Len(dbuf) + 1]
          /\ UNCHANGED host
     ELSE /\ host' = [host EXCEPT !.st = "failed", !.op = "CreateBuffer",
                                  !.err = BufferCtor(Elems(harr[a]))]
          /\ UNCHANGED <<dbuf, dmat>>
  /\ UNCHANGED <<harr, cmds, futs, ncalls>>
  /\ UNCHANGED <<args, task, oclTask, cache, ctx, thr>>

\* DMatrix<T> g(std::move(dm)): g takes rows_, cols_ and buffer_, and dm is
\* left with m.rows_ = m.cols_ = 0 and m.buffer_ = cl::Buffer(); the buffer
\* stays with g, a variable of the caller
DMatrixMoveCtor ==
  /\ host.st = "idle"
  /\ dmat.made
  /\ dmat.buffer # 0
  /\ dmat' = [dmat EXCEPT !.rows = 0, !.cols = 0, !.buffer = 0, !.m = 0, !.h = 0,
                          !.g = @ \cup {dmat.buffer}]
  /\ UNCHANGED engineVars
  /\ UNCHANGED <<args, task, oclTask, cache, ctx, thr>>

\* buffer b is held by a device matrix of the caller other than dm: one that
\* was move-constructed from dm earlier (g), or the DMatrix that get() on a
\* handle future<DMatrix> of UpdateData handed to the caller
HeldByOther(b) ==
  \/ b \in dmat.g
  \/ \E f \in 1..Len(futs) : b \in SeqRange(futs[f].given)

\* the device matrix gives up buffer_ for a new cl::Buffer; the old one is
\* still held by the caller if its variable buff, another device matrix of
\* its or a device matrix it took out of a handle has it
ReplaceBuffer(nb) ==
  Append([b \in 1..Len(dbuf) |->
            IF b = dmat.buffer
            THEN [dbuf[b] EXCEPT !.user = (b = dmat.buff \/ HeldByOther(b))]
            ELSE dbuf[b]],
         nb)

\* the caller's cl::Buffer variable buff goes out of scope: the buffer stays
\* with the device matrices that hold it
BufferScopeExit ==
  /\ host.st = "idle"
  /\ dmat.buff # 0
  /\ dbuf' = [dbuf EXCEPT ![dmat.buff].user =
                           (dmat.buffer = dmat.buff \/ HeldByOther(dmat.buff))]
  /\ dmat' = [dmat EXCEPT !.buff = 0]
  /\ UNCHANGED <<harr, cmds, futs, host, ncalls>>
  /\ UNCHANGED <<args, task, oclTask, cache, ctx, thr>>

\* dm = DMatrix<T>(rows, cols): operator=(DMatrix&&) takes rows_, cols_ and
\* buffer_ of the temporary; the buffer dm held is given up.  When the
\* constructor of the temporary throws dm is not assigned.
DMatrixMoveAssign(s) ==
  /\ host.st = "idle"
  /\ dmat.made
  /\ ncalls < MaxCalls
  /\ ncalls' = ncalls + 1
  /\ IF BufferCtor(s[1] * s[2]) = "ok"
     THEN /\ dbuf' = ReplaceBuffer(NewBuffer(Undef, 0, TRUE))
          /\ dmat' = [dmat EXCEPT !.rows = s[1], !.cols = s[2],
                                  !.buffer = Len(dbuf) + 1, !.m = 0,
                                  !.load = @ + 1, !.h = 0, !.edited = FALSE]
          /\ UNCHANGED host
     ELSE /\ host' = [host EXCEPT !.st = "failed", !.op = "DMatrixSized",
                                  !.err = BufferCtor(s[1] * s[2])]
          /\ UNCHANGED <<dbuf, dmat>>
  /\ UNCHANGED <<harr, cmds, futs>>
  /\ UNCHANGED <<args, task, oclTask, cache, ctx, thr>>

\* enqueueWriteBuffer(buffer_, ..., m.data().memsize(), m.data().get_raw(), ...)
\* for the matrix of block a is rejected for a null buffer_ and for a size of 0
WriteCheck(a) ==
  IF dmat.buffer = 0 THEN "CL_INVALID_MEM_OBJECT"
  ELSE IF Elems(harr[a]) = 0 THEN "CL_INVALID_VALUE" ELSE "ok"

\* dm.UpdateData(m): with another shape rows_ and cols_ are assigned and
\* buffer_ becomes a new USE_HOST_PTR buffer over m.data(); with the same
\* shape MatrixQueue::instance()->memcpy(buffer_, m.data()) is a blocking
\* enqueueWriteBuffer, in which the caller stays until the command is complete
DMatrixUpdateData(a) ==
  /\ host.st = "idle"
  /\ dmat.made
  /\ ncalls < MaxCalls
  /\ ncalls' = ncalls + 1
  /\ LET differ == dmat.rows # harr[a].rows \/ dmat.cols # harr[a].cols
         loaded == [dmat EXCEPT !.m = a, !.load = @ + 1, !.h = 0,
                                !.edited = FALSE]
         shaped == [loaded EXCEPT !.rows = harr[a].rows, !.cols = harr[a].cols]
     IN IF differ
        THEN IF BufferCtor(Elems(harr[a])) = "ok"
             THEN /\ dbuf' = ReplaceBuffer(NewBuffer(BlockRead(harr, a), a, TRUE))
                  /\ dmat' = [shaped EXCEPT !.buffer = Len(dbuf) + 1]
                  /\ UNCHANGED <<cmds, host>>
             ELSE /\ dmat' = shaped
                  /\ host' = [host EXCEPT !.st = "failed", !.op = "UpdateData",
                                          !.err = BufferCtor(Elems(harr[a]))]
                  /\ UNCHANGED <<dbuf, cmds>>
        ELSE IF WriteCheck(a) # "ok"
             THEN /\ dmat' = loaded
                  /\ host' = [host EXCEPT !.st = "failed", !.op = "UpdateData",
                                          !.err = WriteCheck(a)]
                  /\ UNCHANGED <<dbuf, cmds>>
             ELSE /\ cmds' = Append(cmds, [NewCmd("queue", "write", ncalls + 1, {})
                                             EXCEPT !.buf = dmat.buffer,
                                                    !.own = dmat.buffer, !.arr = a])
                  /\ host' = [host EXCEPT !.st = "syncing", !.f = Len(cmds) + 1,
                                          !.op = "UpdateData"]
                  /\ dmat' = loaded
                  /\ UNCHANGED dbuf
  /\ UNCHANGED <<harr, futs>>
  /\ UNCHANGED <<args, task, oclTask, cache, ctx, thr>>

\* dm.UpdateData(m, BlockingType::Unblock): with another shape buffer_ becomes
\* a new READ_WRITE buffer; then a non-blocking enqueueWriteBuffer from
\* m.data() and return future<DMatrix>(DMatrix(rows_, cols_, buffer_), f.event())
DMatrixUpdateDataAsync(a) ==
  /\ host.st = "idle"
  /\ dmat.made
  /\ ncalls < MaxCalls
  /\ ncalls' = ncalls + 1
  /\ LET differ == dmat.rows # harr[a].rows \/ dmat.cols # harr[a].cols
         shaped == [dmat EXCEPT !.m = a, !.load = @ + 1, !.h = 0,
                                !.edited = FALSE,
                                !.rows = harr[a].rows, !.cols = harr[a].cols]
         b == IF differ THEN Len(dbuf) + 1 ELSE dmat.buffer
         err == IF differ THEN BufferCtor(Elems(harr[a])) ELSE WriteCheck(a)
     IN IF err = "ok"
        THEN /\ dbuf' = IF differ THEN ReplaceBuffer(NewBuffer(Undef, 0, TRUE)) ELSE dbuf
             /\ cmds' = Append(cmds, [NewCmd("queue", "write", ncalls + 1, {})
                                        EXCEPT !.buf = b, !.own = b, !.arr = a])
             /\ futs' = Append(futs, NewFuture("future", "dmatrix", ncalls + 1,
                                               Len(cmds) + 1, TRUE, <<>>, << b >>))
             /\ dmat' = [shaped EXCEPT !.buffer = b, !.h = Len(futs) + 1]
             /\ UNCHANGED host
        ELSE /\ dmat' = shaped
             /\ host' = [host EXCEPT !.st = "failed", !.op = "UpdateData", !.err = err]
             /\ UNCHANGED <<dbuf, cmds, futs>>
  /\ UNCHANGED harr
  /\ UNCHANGED <<args, task, oclTask, cache, ctx, thr>>

\* enqueueReadBuffer(buffer_, ..., data.memsize(), ...) is rejected for a
\* null buffer_ and for a size of 0
ReadCheck ==
  IF dmat.buffer = 0 THEN "CL_INVALID_MEM_OBJECT"
  ELSE IF Elems(dmat) = 0 THEN "CL_INVALID_VALUE" ELSE "ok"

\* dm.ToHost(): shared_array<T> data(rows_ * cols_);
\* MatrixQueue::instance()->memcpy(data, buffer_), a blocking
\* enqueueReadBuffer; return Matrix<T>(rows_, cols_, data)
DMatrixToHost ==
  /\ host.st = "idle"
  /\ dmat.made
  /\ ncalls < MaxCalls
  /\ ncalls' = ncalls + 1
  /\ IF ReadCheck = "ok"
     THEN /\ harr' = Append(harr, NewMatrix(TRUE, Undef, <<dmat.rows, dmat.cols>>,
                                            dmat.load))
          /\ cmds' = Append(cmds, [NewCmd("queue", "read", ncalls + 1, {})
                                     EXCEPT !.buf = dmat.buffer, !.own = dmat.buffer,
                                            !.arr = Len(harr) + 1])
          /\ host' = [host EXCEPT !.st = "syncing", !.f = Len(cmds) + 1,
                                  !.op = "ToHost"]
     ELSE /\ host' = [host EXCEPT !.st = "failed", !.op = "ToHost", !.err = ReadCheck]
          /\ UNCHANGED <<harr, cmds>>
  /\ UNCHANGED <<dbuf, futs>>
  /\ UNCHANGED bindVars

\* m.resize(rows, cols) on a Matrix of n elements: rows_ and cols_ are
\* assigned and data_ = shared_array<T>(rows * cols) is
\* shared_array::operator=, which takes the new array only if
\* (array != *this).  operator!= compares the sizes and then the elements,
\* those of the new array being memory nothing has written: with another
\* element count m takes the new array (TRUE), with no element it keeps what
\* it has (FALSE), and otherwise either happens.
ResizeReplaces(n, s) ==
  IF n # s[1] * s[2] THEN {TRUE}
  ELSE IF n = 0 THEN {FALSE} ELSE {TRUE, FALSE}

\* the host store after m.resize(s) on the matrix of block a: m over a new
\* array (the old one loses this owner), or the array kept under the new shape
MatrixResized(a, s, replaced) ==
  IF replaced
  THEN Append([harr EXCEPT ![a].user = FALSE], NewMatrix(TRUE, Undef, s, 0))
  ELSE [harr EXCEPT ![a].rows = s[1], ![a].cols = s[2]]

\* dm.ToHost(&m): if the shape of m differs, m->resize(rows_, cols_); then
\* MatrixQueue::instance()->memcpy(m->data(), buffer_), a blocking
\* enqueueReadBuffer into the array of the caller's matrix
DMatrixToHostInto(a) ==
  /\ host.st = "idle"
  /\ dmat.made
  /\ ncalls < MaxCalls
  /\ ncalls' = ncalls + 1
  /\ \E replaced \in ResizeReplaces(Elems(harr[a]), <<dmat.rows, dmat.cols>>) :
     LET differ == harr[a].rows # dmat.rows \/ harr[a].cols # dmat.cols
         h == IF differ THEN MatrixResized(a, <<dmat.rows, dmat.cols>>, replaced)
              ELSE harr
         target == IF differ /\ replaced THEN Len(harr) + 1 ELSE a
     IN /\ harr' = h
        /\ IF ReadCheck = "ok"
           THEN /\ cmds' = Append(cmds, [NewCmd("queue", "read", ncalls + 1, {})
                                           EXCEPT !.buf = dmat.buffer,
                                                  !.own = dmat.buffer,
                                                  !.arr = target])
                /\ host' = [host EXCEPT !.st = "syncing", !.f = Len(cmds) + 1,
                                        !.op = "ToHostInto"]
           ELSE /\ host' = [host EXCEPT !.st = "failed", !.op = "ToHostInto",
                                        !.err = ReadCheck]
                /\ UNCHANGED cmds
  /\ UNCHANGED <<dbuf, futs>>
  /\ UNCHANGED bindVars

\* dm.ToHost(BlockingType::Unblock): the read is not blocking and the result
\* is future<Matrix<T>>(Matrix<T>(rows_, cols_, data), f.event())
DMatrixToHostAsync ==
  /\ host.st = "idle"
  /\ dmat.made
  /\ ncalls < MaxCalls
  /\ ncalls' = ncalls + 1
  /\ IF ReadCheck = "ok"
     THEN /\ harr' = Append(harr, NewMatrix(FALSE, Undef, <<dmat.rows, dmat.cols>>,
                                            dmat.load))
          /\ cmds' = Append(cmds, [NewCmd("queue", "read", ncalls + 1, {})
                                     EXCEPT !.buf = dmat.buffer, !.own = dmat.buffer,
                                            !.arr = Len(harr) + 1])
          /\ futs' = Append(futs, NewFuture("future", "matrix", ncalls + 1,
                                            Len(cmds) + 1, TRUE,
                                            << Len(harr) + 1 >>, <<>>))
          /\ UNCHANGED host
     ELSE /\ host' = [host EXCEPT !.st = "failed", !.op = "ToHost", !.err = ReadCheck]
          /\ UNCHANGED <<harr, cmds, futs>>
  /\ UNCHANGED dbuf
  /\ UNCHANGED bindVars

\* the blocking enqueueWriteBuffer / enqueueReadBuffer returns once its
\* command is complete
BlockingReturn ==
  /\ host.st = "syncing"
  /\ cmds[host.f].st = "done"
  /\ host' = [host EXCEPT !.st = "idle", !.f = 0, !.op = "none"]
  /\ harr' = IF host.op = "ToHost"
             THEN [harr EXCEPT ![cmds[host.f].arr].ret = TRUE] ELSE harr
  /\ UNCHANGED <<dbuf, cmds, futs, ncalls>>
  /\ UNCHANGED bindVars

\* the caller edits its host matrix m (block a) between two calls, each edit
\* being one of the MaxCalls operations of the run; an edit of the matrix the
\* device matrix was last loaded from is noted in dmat.edited
Edited(a) == IF a = dmat.m THEN [dmat EXCEPT !.edited = TRUE] ELSE dmat

\* m(i, j) = v for the elements of m: T& operator()(i, j) is a reference into
\* data_, the array every copy of data_ and every CL_MEM_USE_HOST_PTR buffer
\* over it shares
MatrixStore(a, v) ==
  /\ host.st = "idle"
  /\ ncalls < MaxCalls
  /\ ncalls' = ncalls + 1
  /\ Elems(harr[a]) > 0
  /\ BlockRead(harr, a) # Val(v)
  /\ harr' = [harr EXCEPT ![a].def = TRUE, ![a].val = v]
  /\ dmat' = Edited(a)
  /\ UNCHANGED <<dbuf, cmds, futs, host>>
  /\ UNCHANGED <<args, task, oclTask, cache, ctx, thr>>

\* m.resize(rows, cols)
MatrixResize(a, s) ==
  /\ host.st = "idle"
  /\ ncalls < MaxCalls
  /\ ncalls' = ncalls + 1
  /\ \E replaced \in ResizeReplaces(Elems(harr[a]), s) :
       harr' = MatrixResized(a, s, replaced)
  /\ dmat' = Edited(a)
  /\ UNCHANGED <<dbuf, cmds, futs, host>>
  /\ UNCHANGED <<args, task, oclTask, cache, ctx, thr>>

\* m.transpose(): new_data gets the elements in transposed order, rows_ and
\* cols_ are swapped and data_ = new_data is shared_array::operator=, which
\* assigns only if (array != *this).  The elements of a matrix with a single
\* row or column are in the same order after the transposition, so m keeps
\* its array.
MatrixTranspose(a) ==
  /\ host.st = "idle"
  /\ ncalls < MaxCalls
  /\ ncalls' = ncalls + 1
  /\ harr' = [harr EXCEPT ![a].rows = harr[a].cols, ![a].cols = harr[a].rows]
  /\ dmat' = Edited(a)
  /\ UNCHANGED <<dbuf, cmds, futs, host>>
  /\ UNCHANGED <<args, task, oclTask, cache, ctx, thr>>

\* m = n, operator=(const Matrix&) with this != &n: rows_ and cols_ are n's,
\* T* ptr = new T[rows_ * cols_]; std::copy(n.data_ ...);
\* data_.reset(ptr, rows_ * cols_), a new array with n's elements
MatrixAssign(a, n) ==
  /\ host.st = "idle"
  /\ ncalls < MaxCalls
  /\ ncalls' = ncalls + 1
  /\ a # n
  /\ harr' = Append([harr EXCEPT ![a].user = FALSE],
                    NewMatrix(TRUE, BlockRead(harr, n),
                              <<harr[n].rows, harr[n].cols>>, 0))
  /\ dmat' = Edited(a)
  /\ UNCHANGED <<dbuf, cmds, futs, host>>
  /\ UNCHANGED <<args, task, oclTask, cache, ctx, thr>>

\* a host matrix of the caller goes out of scope
MatrixScopeExit(a) ==
  /\ host.st = "idle"
  /\ harr' = [harr EXCEPT ![a].user = FALSE]
  /\ UNCHANGED <<dbuf, cmds, futs, host, ncalls>>
  /\ UNCHANGED bindVars

NextRound ==
  \/ DMatrixDefault
  \/ \E a \in CallerMatrices : DMatrixFromMatrix(a)
  \/ \E s \in Shapes : DMatrixSized(s)
  \/ \E a \in CallerMatrices : DMatrixFromBuffer(a)
  \/ DMatrixMoveCtor
  \/ \E s \in Shapes : DMatrixMoveAssign(s)
  \/ \E a \in CallerMatrices : DMatrixUpdateData(a)
  \/ \E a \in CallerMatrices : DMatrixUpdateDataAsync(a)
  \/ DMatrixToHost
  \/ \E a \in CallerMatrices : DMatrixToHostInto(a)
  \/ DMatrixToHostAsync
  \/ BlockingReturn
  \/ BufferScopeExit
  \/ \E a \in CallerMatrices : MatrixStore(a, StoreVal)
  \/ \E a \in CallerMatrices : MatrixTranspose(a)
  \/ \E a \in CallerMatrices, s \in Shapes : MatrixResize(a, s)
  \/ \E a \in CallerMatrices, n \in CallerMatrices : MatrixAssign(a, n)
  \/ \E a \in CallerMatrices : MatrixScopeExit(a)
  \/ \E f \in 1..Len(futs) : FutureCall(f, "get")
  \/ FutureReturn
  \/ CatchError
  \/ \E c \in 1..Len(cmds) : DeviceStart(c)
  \/ \E c \in 1..Len(cmds) : DeviceComplete(c)

SpecRound == InitRound /\ [][NextRound]_vars

\* ------------------------------------------------------------ a second host thread
\* the enqueuing thread gives handle f, returned by Queue::EnqueueTask, to
\* the second thread, which calls f.get() (future.h): with an event to wait
\* on it blocks in cl::Event::wait(), without one it throws CL_INVALID_EVENT
ConsumerGet(f) ==
  /\ thr.f = 0
  /\ futs[f].live
  /\ futs[f].holds = "buffers"
  /\ ~futs[f].waited
  /\ host.f # f
  /\ IF NeedsWait(f)
     THEN /\ thr' = [thr EXCEPT !.st = "blocked", !.f = f]
          /\ UNCHANGED <<harr, dbuf, futs>>
     ELSE IF NullEventThrows(f)
     THEN /\ thr' = [thr EXCEPT !.st = "failed", !.f = f]
          /\ UNCHANGED <<harr, dbuf, futs>>
     ELSE /\ thr' = [st |-> "done", f |-> f, out |-> futs[f].bufs]
          /\ futs' = [futs EXCEPT ![f] = Returned(f, "get")]
          /\ harr' = Delivered(f, "get")
          /\ dbuf' = DeliveredBufs(f, "get")
  /\ UNCHANGED <<cmds, host, ncalls>>
  /\ UNCHANGED <<args, task, oclTask, cache, ctx, dmat>>

\* cl::Event::wait() returns in the second thread once the event is
\* complete, and get() returns std::move(future_result_)
ConsumerReturn ==
  /\ thr.st = "blocked"
  /\ EventFired(futs[thr.f].event)
  /\ thr' = [thr EXCEPT !.st = "done", !.out = futs[thr.f].bufs]
  /\ futs' = [futs EXCEPT ![thr.f] = Returned(thr.f, "get")]
  /\ harr' = Delivered(thr.f, "get")
  /\ dbuf' = DeliveredBufs(thr.f, "get")
  /\ UNCHANGED <<cmds, host, ncalls>>
  /\ UNCHANGED <<args, task, oclTask, cache, ctx, dmat>>

InitThreads ==
  /\ Init
  /\ host.api = "Queue"

\* the enqueuing thread goes on enqueuing tasks and consuming the handles it
\* kept while the second thread is in get()
NextThreads ==
  \/ \E x1 \in UserBuffers, x2 \in UserBuffers : UserEnqueueTask(x1, x2, {})
  \/ \E f \in 1..Len(futs) : ConsumerGet(f)
  \/ ConsumerReturn
  \/ \E f \in (1..Len(futs)) \ {thr.f} : FutureCall(f, "get")
  \/ FutureReturn
  \/ \E c \in 1..Len(cmds) : DeviceStart(c)
  \/ \E c \in 1..Len(cmds) : DeviceComplete(c)

SpecThreads == InitThreads /\ [][NextThreads]_vars

\* ------------------------------------------------------------ dispatch
\* argument packs without an output, besides those of UserArgLists
DispatchArgLists == UserArgLists \cup { <<"IN">>, <<"VAR", "IN">> }

\* dispatches through either queue and the device; the handles are only kept
NextDispatch ==
  \/ \E kinds \in DispatchArgLists : UserAddTask(kinds)
  \/ \E x1 \in UserBuffers, x2 \in UserBuffers : UserEnqueueTask(x1, x2, {})
  \/ CatchError
  \/ \E c \in 1..Len(cmds) : DeviceStart(c)
  \/ \E c \in 1..Len(cmds) : DeviceComplete(c)

SpecDispatch == InitSync /\ [][NextDispatch]_vars

\* ------------------------------------------------------------ wait-lists (queue.h, queue.cc)
\* most extra arguments of one EnqueueTask call, and most elements of a
\* collection passed as one
MaxDeps == 2

\* an extra argument of EnqueueTask after the grid: a handle, a cl::Event, a
\* std::vector of handles or a std::vector of cl::Event; `of` lists the
\* handles whose events it carries
Dependencies(F) ==
  {[kind |-> "future", of |-> << f >>] : f \in F}
  \cup {[kind |-> "event", of |-> << f >>] : f \in F}
  \cup {[kind |-> "futures", of |-> s] : s \in SeqsUpTo(F, MaxDeps)}
  \cup {[kind |-> "events", of |-> s] : s \in SeqsUpTo(F, MaxDeps)}

\* the function a call ExtractEvents(dep) with one argument names.  In
\* EnqueueTask and in the variadic ExtractEvents the call is unqualified and
\* dependent: the declarations of queue.h:421-427 are candidates, and those
\* of namespace oclalgo declared later only when the argument is an
\* oclalgo::future.  A handle selects ExtractEvents(const future<T>&).  The
\* overloads for cl::Event and std::vector<cl::Event> are defined in queue.cc
\* and declared in no header, and the overload for std::vector<future<T>> has
\* a second template parameter U that cannot be deduced: these three arguments
\* select template <typename T> ExtractEvents(const T&), which is declared
\* and never defined.
ExtractEventsOverload(dep) ==
  IF dep.kind = "future" THEN "future" ELSE "generic"

ExtractEventsDefined(dep) == ExtractEventsOverload(dep) = "future"

\* ExtractEvents(const oclalgo::future<T>& f): { f.event() }
ExtractEventsOf(dep) == [k \in 1..Len(dep.of) |-> futs[dep.of[k]].event]

\* ExtractEvents(first, tail...): the events of first, then those of the tail;
\* ExtractEvents() is the empty vector
RECURSIVE ExtractEventsPack(_)
ExtractEventsPack(deps) ==
  IF deps = <<>> THEN <<>>
  ELSE ExtractEventsOf(Head(deps)) \o ExtractEventsPack(Tail(deps))

\* Queue::EnqueueTask(task, grid, deps...) on a task of two IN buffers and a new
\* OUT buffer: events = ExtractEvents(deps...), pevents = &events unless events
\* is empty, then the kernel is enqueued with pevents.  A program in which the
\* call names the undefined ExtractEvents does not link, so nothing is
\* submitted.  args records each call's dependencies and the vector built.
EnqueueTaskAfter(x1, x2, deps) ==
  /\ host.api = "Queue"
  /\ host.st = "idle"
  /\ ncalls < MaxCalls
  /\ IF \A k \in 1..Len(deps) : ExtractEventsDefined(deps[k])
     THEN LET events == ExtractEventsPack(deps)
              out == Len(dbuf) + 1
              as == << [io |-> "IN", data |-> x1], [io |-> "IN", data |-> x2],
                       [io |-> "OUT", data |-> out] >>
          IN /\ EnqueueTask(harr, Append(dbuf, NewBuffer(Undef, 0, TRUE)), as,
                            "vector_add", {deps[k].of[1] : k \in 1..Len(deps)},
                            "buffers")
             /\ args' = Append(args, [deps |-> deps, linked |-> TRUE,
                                      events |-> events,
                                      pevents |-> Len(events) # 0])
     ELSE /\ host' = [host EXCEPT !.st = "failed", !.op = "EnqueueTask",
                                  !.err = "undefined reference"]
          /\ args' = Append(args, [deps |-> deps, linked |-> FALSE,
                                   events |-> <<>>, pevents |-> FALSE])
          /\ UNCHANGED <<harr, dbuf, cmds, futs, ncalls>>
  /\ UNCHANGED <<task, oclTask, cache, ctx, dmat, thr>>

InitWait ==
  /\ Init
  /\ host.api = "Queue"

NextWait ==
  \/ \E x1 \in UserBuffers, x2 \in UserBuffers :
       \E deps \in SeqsUpTo(Dependencies({f \in 1..Len(futs) : futs[f].live}),
                            MaxDeps) :
         EnqueueTaskAfter(x1, x2, deps)
  \/ \E c \in 1..Len(cmds) : DeviceStart(c)
  \/ \E c \in 1..Len(cmds) : DeviceComplete(c)

SpecWait == InitWait /\ [][NextWait]_vars

\* ------------------------------------------------------------ directional arguments (kernel_arg.h, queue.h)
\* enum class ArgType { IN, OUT, IN_OUT }
ArgTypes == {"IN", "OUT", "IN_OUT"}

\* Queue::CastToBufferType(arg_type)
CastToBufferType(arg_type) ==
  CASE arg_type = "IN" -> "ReadOnly"
    [] arg_type = "OUT" -> "WriteOnly"
    [] arg_type = "IN_OUT" -> "ReadWrite"

\* a BufferArg the caller holds: io is arg_type_, made the direction given to
\* the constructor, access the access flag of the cl::Buffer in data_ and
\* populated whether the buffer was created over host memory
NewKernelArg(arg_type, data, access, populated) ==
  [io |-> arg_type, data |-> data, made |-> arg_type, access |-> access,
   populated |-> populated]

\* Queue::CreateBuffer(array, type): ReadOnly and ReadWrite are created with
\* CL_MEM_USE_HOST_PTR over array.get_raw(); WriteOnly passes nullptr
CreateBufferPopulates(type) == type # "WriteOnly"

\* the cl::Buffer of a DMatrix: DMatrix(const Matrix&) creates it with
\* CL_MEM_READ_WRITE | CL_MEM_USE_HOST_PTR, DMatrix(int, int) with
\* CL_MEM_READ_WRITE, and the result of operator+, operator-, operator* holds
\* the buffer of CreateKernelArg<T>(size, ArgType::OUT)
DMatrixBuffers ==
  { [access |-> "ReadWrite", populated |-> TRUE],
    [access |-> "ReadWrite", populated |-> FALSE],
    [access |-> CastToBufferType("OUT"), populated |-> FALSE] }

\* Queue::CreateKernelArg(array, arg_type)
CreateKernelArgOfArray(arg_type) ==
  /\ ~task.built
  /\ Len(args) < MaxArgs
  /\ LET type == CastToBufferType(arg_type)
     IN args' = Append(args, NewKernelArg(arg_type, Len(args) + 1, type,
                                          CreateBufferPopulates(type)))
  /\ UNCHANGED <<task, oclTask, cache, ctx, dmat, thr>>
  /\ UNCHANGED engineVars

\* Queue::CreateKernelArg<T>(size, arg_type)
CreateKernelArgOfSize(arg_type) ==
  /\ ~task.built
  /\ Len(args) < MaxArgs
  /\ args' = Append(args, NewKernelArg(arg_type, Len(args) + 1,
                                       CastToBufferType(arg_type), FALSE))
  /\ UNCHANGED <<task, oclTask, cache, ctx, dmat, thr>>
  /\ UNCHANGED engineVars

\* BufferArg(m.buffer(), arg_type): KernelArg(const T& data, ArgType) wraps a
\* buffer that exists already, as the DMatrix operators do with their operands
BufferArgCtor(b, arg_type) ==
  /\ ~task.built
  /\ Len(args) < MaxArgs
  /\ args' = Append(args, NewKernelArg(arg_type, Len(args) + 1, b.access,
                                       b.populated))
  /\ UNCHANGED <<task, oclTask, cache, ctx, dmat, thr>>
  /\ UNCHANGED engineVars

\* arg.arg_type() = arg_type, through ArgType& KernelArg::arg_type() noexcept
SetArgType(k, arg_type) ==
  /\ ~task.built
  /\ args[k].io # arg_type
  /\ args' = [args EXCEPT ![k].io = arg_type]
  /\ UNCHANGED <<task, oclTask, cache, ctx, dmat, thr>>
  /\ UNCHANGED engineVars

\* arg.data() = buffer, through T& KernelArg::data() noexcept: the argument
\* carries another cl::Buffer (identity MaxArgs + k) and keeps its arg_type_
SetArgData(k, b) ==
  /\ ~task.built
  /\ << args[k].data, args[k].access, args[k].populated >>
       # << MaxArgs + k, b.access, b.populated >>
  /\ args' = [args EXCEPT ![k].data = MaxArgs + k, ![k].access = b.access,
                          ![k].populated = b.populated]
  /\ UNCHANGED <<task, oclTask, cache, ctx, dmat, thr>>
  /\ UNCHANGED engineVars

\* BufferArg z(std::move(x)), KernelArg(KernelArg<T>&& arg): z takes the buffer
\* and arg_type_ of x; x keeps its arg_type_ and holds a null cl::Buffer
\* (data 0, no access flag)
KernelArgMoveCtor(k) ==
  /\ ~task.built
  /\ Len(args) < MaxArgs
  /\ args[k].data # 0
  /\ args' = Append([args EXCEPT ![k].data = 0, ![k].access = "none",
                                 ![k].populated = FALSE],
                    NewKernelArg(args[k].io, args[k].data, args[k].access,
                                 args[k].populated))
  /\ UNCHANGED <<task, oclTask, cache, ctx, dmat, thr>>
  /\ UNCHANGED engineVars

InitDirection ==
  /\ InitBind
  /\ args = <<>>

NextDirection ==
  \/ \E t \in ArgTypes : CreateKernelArgOfArray(t)
  \/ \E t \in ArgTypes : CreateKernelArgOfSize(t)
  \/ \E b \in DMatrixBuffers : \E t \in ArgTypes : BufferArgCtor(b, t)
  \/ \E k \in 1..Len(args) : \E t \in ArgTypes : SetArgType(k, t)
  \/ \E k \in {Len(args)} \ {0} : \E b \in DMatrixBuffers : SetArgData(k, b)
  \/ \E k \in 1..Len(args) : KernelArgMoveCtor(k)
  \/ \E ok \in BOOLEAN : CreateTaskBind(BindProgram, BindKernel, ok)

SpecDirection == InitDirection /\ [][NextDirection]_vars

\* ------------------------------------------------------------ byte sizes (shared_array.h, queue.h, dmatrix.h)
\* sizeof(T) of the element types the matrix kernels are built for
\* (PrintType<int>, PrintType<float>, PrintType<double>)
ElementWidths == {4, 8}

\* the dimensions of the matrices and the element counts of the arrays used
Dims == 1..MaxLen

\* shared_array::memsize(): sizeof(T) * size_
MemSize(size, w) == w * size

\* Queue::CreateBuffer<T>(size, type): cl::Buffer(context_, flags, size * sizeof(T))
CreateBufferBytes(size, w) == size * w

\* DMatrix operator+, operator-, operator*:
\*   size_t size = sizeof(T) * rows * cols;
\*   BufferArg out = queue->CreateKernelArg<T>(size, ArgType::OUT);
OperatorOutBytes(rows, cols, w) == CreateBufferBytes(w * rows * cols, w)

\* one allocation or transfer: n the element count of the array it is for,
\* w the width of an element and bytes the size handed to OpenCL
SizeEntry(what, by, n, w, bytes) ==
  [what |-> what, by |-> by, n |-> n, w |-> w, bytes |-> bytes]

LogSizes(entries) ==
  /\ Len(args) + Len(entries) <= MaxArgs
  /\ args' = args \o entries
  /\ UNCHANGED <<task, oclTask, cache, ctx, dmat, thr>>
  /\ UNCHANGED engineVars

\* Queue::CreateKernelArg(array, arg_type): CreateBuffer(array, type) with
\* array.memsize() bytes
SizeOfArrayArg(n, w) ==
  LogSizes(<< SizeEntry("alloc", "CreateKernelArg(array)", n, w, MemSize(n, w)) >>)

\* Queue::CreateKernelArg<T>(size, arg_type) called with an element count
\* (tests/queue.cc)
SizeOfSizedArg(n, w) ==
  LogSizes(<< SizeEntry("alloc", "CreateKernelArg(size)", n, w,
                        CreateBufferBytes(n, w)) >>)

\* Queue::memcpy, all four overloads: array.memsize() bytes
SizeOfMemcpy(n, w) ==
  LogSizes(<< SizeEntry("transfer", "memcpy", n, w, MemSize(n, w)) >>)

\* OpenCLQueue::SetKernelArgs and GetResults for an IN_OUT argument:
\* host_array.memsize() bytes for the buffer and for the read-back
SizeOfAddTaskArg(n, w) ==
  LogSizes(<< SizeEntry("alloc", "SetKernelArgs", n, w, MemSize(n, w)),
              SizeEntry("transfer", "GetResults", n, w, MemSize(n, w)) >>)

\* DMatrix(const Matrix&) and DMatrix(int, int): rows * cols * sizeof(T)
SizeOfDMatrix(rows, cols, w) ==
  LogSizes(<< SizeEntry("alloc", "DMatrix", rows * cols, w, rows * cols * w) >>)

\* DMatrix::ToHost(): shared_array<T> data(rows_ * cols_), read with
\* data.memsize() bytes
SizeOfToHost(rows, cols, w) ==
  LogSizes(<< SizeEntry("transfer", "ToHost", rows * cols, w,
                        MemSize(rows * cols, w)) >>)

\* the output buffer of m1 + m2, m1 - m2 (rows x cols operands) and of
\* m1 * m2 (rows x k times k x cols): a rows x cols result
SizeOfOperator(rows, cols, w) ==
  LogSizes(<< SizeEntry("alloc", "operator", rows * cols, w,
                        OperatorOutBytes(rows, cols, w)) >>)

InitBytes ==
  /\ InitBind
  /\ args = <<>>

NextBytes ==
  \/ \E n \in Dims, w \in ElementWidths : SizeOfArrayArg(n, w)
  \/ \E n \in Dims, w \in ElementWidths : SizeOfSizedArg(n, w)
  \/ \E n \in Dims, w \in ElementWidths : SizeOfMemcpy(n, w)
  \/ \E n \in Dims, w \in ElementWidths : SizeOfAddTaskArg(n, w)
  \/ \E r \in Dims, c \in Dims, w \in ElementWidths : SizeOfDMatrix(r, c, w)
  \/ \E r \in Dims, c \in Dims, w \in ElementWidths : SizeOfToHost(r, c, w)
  \/ \E r \in Dims, c \in Dims, w \in ElementWidths : SizeOfOperator(r, c, w)

SpecBytes == InitBytes /\ [][NextBytes]_vars

\* ------------------------------------------------------------ Queue::memcpy (queue.h)
\* enum class BlockingType; "Sync" stands for the two overloads without a
\* BlockingType parameter, which pass CL_TRUE
BlockingTypes == {"Block", "Unblock"}

\* block == BlockingType::Block ? CL_TRUE : CL_FALSE
IsBlockingNeverMut(block) == FALSE

IsBlocking(block) == block = "Block"

\* the handle a future-returning copy returns for command c:
\* future<cl::Buffer>(std::move(buffer), event) for a write,
\* future<shared_array<T>>(std::move(array), event) or, from DMatrix::ToHost,
\* future<Matrix<T>>(Matrix(rows_, cols_, data), f.event()) for a read
CopyHandle(c, holds) ==
  IF c.kind = "write"
  THEN NewFuture("future", "buffer", c.call, Len(cmds) + 1, TRUE, <<>>, << c.buf >>)
  ELSE NewFuture("future", holds, c.call, Len(cmds) + 1, TRUE, << c.arr >>, <<>>)

\* one enqueueWriteBuffer / enqueueReadBuffer between buffer b and host array
\* a of host store h.  A blocking call stays in the enqueue until the command
\* is complete; a non-blocking one returns its handle at once.  args records
\* the command of each call and the blocking mode the caller asked for.
\* The future-returning write takes cl::Buffer&& and ends with
\* future<cl::Buffer>(std::move(buffer), event): the caller's variable is
\* left null and the buffer is the handle's.
MovesBuffer(kind, block, holds) ==
  kind = "write" /\ holds = "buffer" /\ block # "Sync"

MemcpyCall(kind, b, a, h, block, holds) ==
  LET call == ncalls + 1
      kc == Len(cmds) + 1
      c == [NewCmd("queue", kind, call, {}) EXCEPT !.buf = b, !.own = b, !.arr = a]
  IN /\ host.api = "Queue"
     /\ host.st = "idle"
     /\ ncalls < MaxCalls
     /\ harr' = h
     /\ cmds' = Append(cmds, c)
     /\ ncalls' = call
     /\ args' = Append(args, [cmd |-> kc, block |-> block])
     /\ IF block = "Sync" \/ IsBlocking(block)
        THEN /\ host' = [host EXCEPT !.st = "syncing", !.f = kc,
                                     !.op = IF block = "Sync" THEN "memcpy" ELSE holds]
             /\ UNCHANGED futs
             /\ UNCHANGED dbuf
        ELSE /\ futs' = Append(futs, CopyHandle(c, holds))
             /\ dbuf' = IF MovesBuffer(kind, block, holds)
                        THEN [dbuf EXCEPT ![b].user = FALSE] ELSE dbuf
             /\ UNCHANGED host
     /\ UNCHANGED <<task, oclTask, cache, ctx, dmat, thr>>

\* the blocking enqueue returns: the synchronous overloads return the buffer
\* or the array, the others construct the handle; the locals of
\* DMatrix::ToHost go out of scope
MemcpyReturn ==
  /\ host.st = "syncing"
  /\ host.op \in {"memcpy", "buffer", "array", "matrix"}
  /\ cmds[host.f].st = "done"
  /\ futs' = IF host.op = "memcpy" THEN futs
             ELSE Append(futs, [CopyHandle(cmds[host.f], host.op)
                                  EXCEPT !.event = host.f])
  /\ harr' = IF host.op = "matrix"
             THEN [harr EXCEPT ![cmds[host.f].arr].user = FALSE] ELSE harr
  /\ dbuf' = IF MovesBuffer(cmds[host.f].kind, "Block", host.op)
             THEN [dbuf EXCEPT ![cmds[host.f].buf].user = FALSE] ELSE dbuf
  /\ host' = [host EXCEPT !.st = "idle", !.f = 0, !.op = "none"]
  /\ UNCHANGED <<cmds, ncalls>>
  /\ UNCHANGED bindVars

\* queue.CreateBuffer<T>(size, type): a buffer of its own, not over host memory
QueueCreateBuffer ==
  /\ host.api = "Queue"
  /\ host.st = "idle"
  /\ Len(dbuf) <= NumMatrices
  /\ dbuf' = Append(dbuf, NewBuffer(Undef, 0, TRUE))
  /\ UNCHANGED <<harr, cmds, futs, host, ncalls>>
  /\ UNCHANGED bindVars

\* cl::Buffer Queue::memcpy(buffer, array)
MemcpyWriteSync(b, a) == MemcpyCall("write", b, a, harr, "Sync", "buffer")

\* future<cl::Buffer> Queue::memcpy(std::move(buffer), array, block)
MemcpyWrite(b, a, block) == MemcpyCall("write", b, a, harr, block, "buffer")

\* queue.memcpy(std::move(buffer), array, block) on a variable an earlier
\* call has moved from: enqueueWriteBuffer on the null cl::Buffer throws
\* CL_INVALID_MEM_OBJECT and nothing is submitted
MemcpyWriteNull ==
  /\ host.api = "Queue"
  /\ host.st = "idle"
  /\ ncalls < MaxCalls
  /\ \E f \in 1..Len(futs) : futs[f].cls = "future" /\ futs[f].holds = "buffer"
  /\ DispatchThrows(harr, dbuf, "CL_INVALID_MEM_OBJECT")
  /\ UNCHANGED bindVars

\* shared_array<T> Queue::memcpy(array, buffer)
MemcpyReadSync(a, b) == MemcpyCall("read", b, a, harr, "Sync", "array")

\* future<shared_array<T>> Queue::memcpy(std::move(array), buffer, block);
\* shared_array has no move constructor, the caller's variable keeps the array
MemcpyRead(a, b, block) == MemcpyCall("read", b, a, harr, block, "array")

\* DMatrix::ToHost(block): a new array `data`, read through its copy `copy`,
\* and stored in the Matrix the handle holds
ToHostBlocking(b, block) ==
  MemcpyCall("read", b, Len(harr) + 1,
             Append(harr, NewBlock(IsBlocking(block), Undef)), block, "matrix")

InitCopy ==
  /\ Init
  /\ host.api = "Queue"

\* the buffers the caller made with queue.CreateBuffer
CreatedBuffers == {b \in UserBuffers : dbuf[b].hostptr = 0}

NextCopy ==
  \/ QueueCreateBuffer
  \/ \E b \in CreatedBuffers, a \in UserMatrices : MemcpyWriteSync(b, a)
  \/ \E b \in CreatedBuffers, a \in UserMatrices, block \in BlockingTypes :
       MemcpyWrite(b, a, block)
  \/ MemcpyWriteNull
  \/ CatchError
  \/ \E b \in CreatedBuffers, a \in UserMatrices : MemcpyReadSync(a, b)
  \/ \E b \in CreatedBuffers, a \in UserMatrices, block \in BlockingTypes :
       MemcpyRead(a, b, block)
  \/ \E b \in UserBuffers \ CreatedBuffers, block \in BlockingTypes :
       ToHostBlocking(b, block)
  \/ MemcpyReturn
  \/ \E f \in 1..Len(futs) : \E op \in {"get", "wait"} : FutureCall(f, op)
  \/ FutureReturn
  \/ \E c \in 1..Len(cmds) : DeviceStart(c)
  \/ \E c \in 1..Len(cmds) : DeviceComplete(c)

SpecCopy == InitCopy /\ [][NextCopy]_vars

\* the same with a caller that lets its variables go out of scope while
\* copies are in flight, and with DMatrix::UpdateData(m, Unblock)
NextDrop ==
  \/ QueueCreateBuffer
  \/ \E b \in UserBuffers, a \in UserMatrices : MemcpyWrite(b, a, "Unblock")
  \/ \E b \in UserBuffers, a \in UserMatrices : UpdateData(b, a)
  \/ UserScopeExit
  \/ \E f \in 1..Len(futs) : \E op \in {"get", "wait"} : FutureCall(f, op)
  \/ FutureReturn
  \/ \E c \in 1..Len(cmds) : DeviceStart(c)
  \/ \E c \in 1..Len(cmds) : DeviceComplete(c)

SpecDrop == InitCopy /\ [][NextDrop]_vars

\* ------------------------------------------------------------ hblas expressions
\* what an operator leaves behind for the expression around it: the value the
\* host computes for the same operands (expect), the block size of the Matrix
\* the returned handle stores, and the outcome of the dispatch
ExprEntry(op, lhs, expect, block_size, err) ==
  [op |-> op, lhs |-> lhs, expect |-> expect, block_size |-> block_size,
   err |-> err]

\* a.future() + b.future() for 1 x 1 matrices a = (va), b = (vb) of the caller:
\* Matrix<U> res(rows, cols) has block_size_ 0, the kernel runs on
\* cl::NDRange(rows, cols) with cl::NullRange as the work-group size
MatrixSumExpr(va, vb) ==
  /\ host.api = "hblas"
  /\ host.st = "idle"
  /\ ncalls < MaxCalls
  /\ LET a == Len(harr) + 1
         h == harr \o << NewBlock(TRUE, Val(va)), NewBlock(TRUE, Val(vb)),
                         NewBlock(FALSE, Undef) >>
         as == << [io |-> "IN", data |-> a, sval |-> 0],
                  [io |-> "IN", data |-> a + 1, sval |-> 0],
                  [io |-> "OUT", data |-> a + 2, sval |-> 0] >>
     IN /\ AddTask(cache, h, as, HblasProgram("matrix_add", 0), "matrix_add",
                   {}, "matrix")
        /\ args' = Append(args, ExprEntry("matrix_add", 0, va + vb, 0,
                                          EnqueueNDRangeKernel(<<1, 1>>, <<>>)))
  /\ UNCHANGED <<task, oclTask, ctx, dmat, thr>>

\* futureM1 * c.future() for a 1 x 1 matrix c = (vc) of the caller, futureM1
\* being the live handle lhs of an earlier operator, or m1.future() of a
\* matrix m1 = (v1) the caller built with block size bs (lhs = 0).
\* block_size is futureM1.stored_data().block_size().
MatrixMulExpr(lhs, v1, bs, vc) ==
  /\ host.api = "hblas"
  /\ host.st = "idle"
  /\ ncalls < MaxCalls
  /\ Len(args) = ncalls
  /\ IF lhs = 0 THEN TRUE
     ELSE /\ lhs \in 1..Len(futs)
          /\ futs[lhs].live
          /\ futs[lhs].holds = "matrix"
          /\ v1 = 0 /\ bs = 0
  /\ LET c == Len(harr) + 1
         m1 == IF lhs = 0 THEN c + 1 ELSE futs[lhs].arrs[1]
         res == IF lhs = 0 THEN c + 2 ELSE c + 1
         h == harr \o << NewBlock(TRUE, Val(vc)) >>
                   \o (IF lhs = 0 THEN << NewBlock(TRUE, Val(v1)) >> ELSE << >>)
                   \o << NewBlock(FALSE, Undef) >>
         block_size == IF lhs = 0 THEN bs ELSE args[futs[lhs].call].block_size
         expect == (IF lhs = 0 THEN v1 ELSE args[futs[lhs].call].expect) * vc
         as == << [io |-> "IN", data |-> m1, sval |-> 0],
                  [io |-> "IN", data |-> c, sval |-> 0],
                  [io |-> "OUT", data |-> res, sval |-> 0],
                  [io |-> "LOCALE", data |-> 0, sval |-> 0],
                  [io |-> "LOCALE", data |-> 0, sval |-> 0],
                  [io |-> "VAR", data |-> 0, sval |-> 1],
                  [io |-> "VAR", data |-> 0, sval |-> 1] >>
         err == MulDispatchError(1, 1, block_size)
         deps == IF lhs = 0 THEN {} ELSE {futs[lhs].event}
     IN /\ IF err = "ok"
           THEN AddTask(cache, h, as, HblasProgram("matrix_mul", block_size),
                        "matrix_mul", deps, "matrix")
           ELSE AddTaskThrows(cache, h, as, HblasProgram("matrix_mul", block_size),
                              "matrix_mul", MulBound(block_size), err)
        /\ args' = Append(args, ExprEntry("matrix_mul", lhs, expect, 0, err))
  /\ UNCHANGED <<task, oclTask, ctx, dmat, thr>>

InitExpr ==
  /\ Init
  /\ host.api = "hblas"

NextExpr ==
  \/ \E va \in InputVals, vb \in InputVals : MatrixSumExpr(va, vb)
  \/ \E lhs \in 0..MaxHandles : \E v1 \in InputVals, bs \in BlockSizes :
       \E vc \in InputVals : MatrixMulExpr(lhs, v1, bs, vc)
  \/ \E a \in UserMatrices : HblasMatrixStore(a, StoreVal)
  \/ \E a \in UserMatrices : HblasMatrixResize(a)
  \/ \E a \in UserMatrices, w \in MatrixOperands : HblasMatrixAssign(a, w)
  \/ \E a \in UserMatrices : HblasMatrixTranspose(a)
  \/ \E f \in 1..Len(futs) : FutureCall(f, "get")
  \/ FutureReturn
  \/ CatchError
  \/ \E c \in 1..Len(cmds) : DeviceStart(c)
  \/ \E c \in 1..Len(cmds) : DeviceComplete(c)

SpecExpr == InitExpr /\ [][NextExpr]_vars

\* ------------------------------------------------------------ shared_array (shared_array.h)
\* A program with two shared_array<int> variables a and b.  store is the heap:
\* store[p] is the element sequence of the array allocated at p; a variable is
\* (sptr_, size_), sptr_ = 0 being the null pointer of shared_array().  The
\* whole program state is the single entry of args; last names the variables
\* of the latest assignment and prev the heap before it.
NullArray == [sptr |-> 0, size |-> 0]

\* shared_array(new T[n], n) over the array allocated at p
ArrayOver(store, p) ==
  IF p = 0 THEN NullArray ELSE [sptr |-> p, size |-> Len(store[p])]

\* T& operator[](i): element i (zero-based) of the array behind x
ElementAt(store, x, i) == store[x.sptr][i + 1]

\* operator==(a, b): equal sizes and equal elements
ArrayEq(store, x, y) ==
  IF x.size # y.size THEN FALSE
  ELSE \A i \in 0..(x.size - 1) : ElementAt(store, x, i) = ElementAt(store, y, i)

\* operator!=(a, b)
ArrayNe(store, x, y) == ~ArrayEq(store, x, y)

\* shared_array::operator=(array): if (array != *this) { sptr_ = array.sptr_;
\* size_ = array.size_; }
ArrayAssign(store, this, array) ==
  IF ArrayNe(store, array, this) THEN [sptr |-> array.sptr, size |-> array.size]
  ELSE this

ArrayVars == {"a", "b"}

ArrayProgram(store, a, b, last, prev) ==
  [store |-> store, a |-> a, b |-> b, last |-> last, prev |-> prev]

\* dst = src
AssignArrays(dst, src) ==
  /\ Len(args) = 1
  /\ LET s == args[1]
         r == ArrayAssign(s.store, s[dst], s[src])
     IN args' = << [s EXCEPT ![dst] = r, !.last = <<dst, src>>, !.prev = s.store] >>
  /\ UNCHANGED <<task, oclTask, cache, ctx, dmat, thr>>
  /\ UNCHANGED engineVars

\* x[i] = v
StoreElement(x, i, v) ==
  /\ Len(args) = 1
  /\ LET s == args[1]
     IN /\ i < s[x].size
        /\ s.store[s[x].sptr][i + 1] # v
        /\ args' = << [s EXCEPT !.store[s[x].sptr][i + 1] = v, !.last = <<>>] >>
  /\ UNCHANGED <<task, oclTask, cache, ctx, dmat, thr>>
  /\ UNCHANGED engineVars

\* arrays the program allocates on the heap in a run
MaxArrays == 3

\* x.reset(): sptr_.reset(); size_ = 0
ResetArray(x) ==
  /\ Len(args) = 1
  /\ args[1][x] # NullArray
  /\ args' = << [args[1] EXCEPT ![x] = NullArray, !.last = <<>>] >>
  /\ UNCHANGED <<task, oclTask, cache, ctx, dmat, thr>>
  /\ UNCHANGED engineVars

\* x.reset(ptr, size) and x.reset(ptr, size, deleter), ptr being a new array
\* the caller has filled with elems: sptr_.reset(ptr, ...); size_ = size
ResetArrayTo(x, elems) ==
  /\ Len(args) = 1
  /\ Len(args[1].store) < MaxArrays
  /\ LET s == args[1]
         store == Append(s.store, elems)
     IN args' = << [s EXCEPT !.store = store,
                             ![x] = ArrayOver(store, Len(store)),
                             !.last = <<>>] >>
  /\ UNCHANGED <<task, oclTask, cache, ctx, dmat, thr>>
  /\ UNCHANGED engineVars

\* x.swap(y) and swap(x, y): sptr_.swap(y.sptr_); std::swap(size_, y.size_)
SwapArrays(x, y) ==
  /\ Len(args) = 1
  /\ x # y
  /\ args[1][x] # args[1][y]
  /\ args' = << [args[1] EXCEPT ![x] = args[1][y], ![y] = args[1][x],
                                !.last = <<>>] >>
  /\ UNCHANGED <<task, oclTask, cache, ctx, dmat, thr>>
  /\ UNCHANGED engineVars

\* two arrays of up to MaxLen elements on the heap; each variable holds one of
\* them or is empty
InitArrays ==
  /\ \E s1 \in SeqsUpTo(InputVals, MaxLen), s2 \in SeqsUpTo(InputVals, MaxLen) :
       \E pa \in 0..2, pb \in 0..2 :
         args = << ArrayProgram(<<s1, s2>>, ArrayOver(<<s1, s2>>, pa),
                                ArrayOver(<<s1, s2>>, pb), <<>>, <<s1, s2>>) >>
  /\ task = NoTask
  /\ oclTask = NoOclTask
  /\ cache = NoCache
  /\ ctx = NoCtx
  /\ dmat = NoDMatrix
  /\ thr = NoThread
  /\ EngineIdle

NextArrays ==
  \/ \E dst \in ArrayVars, src \in ArrayVars : AssignArrays(dst, src)
  \/ \E x \in ArrayVars, i \in 0..(MaxLen - 1), v \in InputVals : StoreElement(x, i, v)
  \/ \E x \in ArrayVars : ResetArray(x)
  \/ \E x \in ArrayVars, elems \in SeqsUpTo(InputVals, MaxLen) : ResetArrayTo(x, elems)
  \/ \E x \in ArrayVars, y \in ArrayVars : SwapArrays(x, y)

SpecArrays == InitArrays /\ [][NextArrays]_vars

\* ------------------------------------------------------------ input snapshots
\* argument packs with IN and IN_OUT host arrays
SnapshotArgLists == { <<"IN", "OUT">>, <<"IN_OUT", "IN">> }

\* the caller fills one array per argument with v (an OUT array is left as
\* new int[n] gives it) and calls queue.AddTask(..., args...).  args records
\* the pack of each call: sval is what the array held at the call, host what
\* the caller has stored in it last.
SnapshotAddTask(kinds, v) ==
  /\ host.api = "OpenCLQueue"
  /\ host.st = "idle"
  /\ ncalls < MaxCalls
  /\ LET n == Len(kinds)
         h == harr \o [i \in 1..n |->
                         NewBlock(TRUE, IF kinds[i] = "OUT" THEN Undef ELSE Val(v))]
         as == [i \in 1..n |-> [io |-> kinds[i], data |-> Len(harr) + i,
                                sval |-> v, host |-> v]]
     IN /\ AddTask(cache, h, as, UserProgram(kinds), "user_kernel", {}, "tuple")
        /\ args' = Append(args, as)
  /\ UNCHANGED <<task, oclTask, ctx, dmat, thr>>

\* after AddTask has returned the caller overwrites one of the input arrays
\* it passed to its latest call: host_array[i] = v
HostStore(n, i, v) ==
  /\ host.st = "idle"
  /\ n = Len(args)
  /\ i \in 1..Len(args[n])
  /\ args[n][i].io \in {"IN", "IN_OUT"}
  /\ args[n][i].host = args[n][i].sval
  /\ v # args[n][i].sval
  /\ harr' = [harr EXCEPT ![args[n][i].data].def = TRUE,
                          ![args[n][i].data].val = v]
  /\ args' = [args EXCEPT ![n][i].host = v]
  /\ UNCHANGED <<dbuf, cmds, futs, host, ncalls>>
  /\ UNCHANGED <<task, oclTask, cache, ctx, dmat, thr>>

InitSnapshot ==
  /\ Init
  /\ host.api = "OpenCLQueue"

NextSnapshot ==
  \/ \E kinds \in SnapshotArgLists, v \in InputVals : SnapshotAddTask(kinds, v)
  \/ \E n \in 1..MaxCalls, i \in 1..MaxArgs, v \in InputVals : HostStore(n, i, v)
  \/ \E c \in 1..Len(cmds) : DeviceStart(c)
  \/ \E c \in 1..Len(cmds) : DeviceComplete(c)

SpecSnapshot == InitSnapshot /\ [][NextSnapshot]_vars

\* ------------------------------------------------------------ moves (matrix.h, dmatrix.h)
\* A program with two host matrices m1, m2 and two device matrices d1, d2.
\* A Matrix is (rows_, cols_, data_), data_ a shared_array over the heap
\* `store`; a DMatrix is (rows_, cols_, buffer_), buffer_ = 0 being the null
\* cl::Buffer.  The whole program state is the single entry of args; last
\* names the operation, destination and source of the latest move and prev
\* the heap and the source before it.
MatrixVars == {"m1", "m2"}
DMatrixVars == {"d1", "d2"}

\* Matrix<T>::Matrix(): rows_(0), cols_(0)
EmptyMatrix == [rows |-> 0, cols |-> 0, data |-> NullArray]

\* DMatrix<T>::DMatrix(): rows_(0), cols_(0)
EmptyDMatrix == [rows |-> 0, cols |-> 0, buffer |-> 0]

\* a moved-from matrix that keeps its members, as the implicit move would
MovedFromKeptMut(m) == m

\* the source after a move: m.data_.reset(); m.rows_ = m.cols_ = 0;
MovedFrom(m) == EmptyMatrix

\* the source after a move: m.rows_ = m.cols_ = 0; m.buffer_ = cl::Buffer();
DMovedFrom(m) == EmptyDMatrix

\* Matrix<T>::Matrix(Matrix<T>&& m): rows_(m.rows_), cols_(m.cols_),
\* data_(m.data_), the copy constructor of shared_array
MatrixMoveCtor(m) == [rows |-> m.rows, cols |-> m.cols, data |-> m.data]

\* Matrix<T>::operator=(Matrix<T>&& m), this # &m: data_ = m.data_ is
\* shared_array::operator=
MatrixMoveAssign(store, this, m) ==
  [rows |-> m.rows, cols |-> m.cols, data |-> ArrayAssign(store, this.data, m.data)]

\* DMatrix<T>::DMatrix(DMatrix<T>&& m) and DMatrix<T>::operator=(DMatrix<T>&& m)
DMatrixMove(m) == [rows |-> m.rows, cols |-> m.cols, buffer |-> m.buffer]

\* the elements of matrix m, row by row
MatrixElems(store, m) ==
  IF m.data.sptr = 0 THEN <<>> ELSE store[m.data.sptr]

MoveProgram(store, m1, m2, d1, d2) ==
  [store |-> store, m1 |-> m1, m2 |-> m2, d1 |-> d1, d2 |-> d2,
   last |-> <<>>, prev |-> <<>>]

\* Matrix<int> dst(std::move(src)): dst is a new object
MoveConstructMatrix(dst, src) ==
  /\ Len(args) = 1
  /\ dst # src
  /\ LET s == args[1]
     IN args' = << [s EXCEPT ![dst] = MatrixMoveCtor(s[src]),
                             ![src] = MovedFrom(s[src]),
                             !.last = <<"Matrix", dst, src>>,
                             !.prev = << [store |-> s.store, src |-> s[src]] >>] >>
  /\ UNCHANGED <<task, oclTask, cache, ctx, dmat, thr>>
  /\ UNCHANGED engineVars

\* dst = std::move(src); with dst and src the same object nothing happens
MoveAssignMatrix(dst, src) ==
  /\ Len(args) = 1
  /\ LET s == args[1]
     IN args' = << [s EXCEPT ![dst] = IF dst # src
                                      THEN MatrixMoveAssign(s.store, s[dst], s[src])
                                      ELSE @,
                             ![src] = IF dst # src THEN MovedFrom(s[src]) ELSE @,
                             !.last = <<"Matrix", dst, src>>,
                             !.prev = << [store |-> s.store, src |-> s[src]] >>] >>
  /\ UNCHANGED <<task, oclTask, cache, ctx, dmat, thr>>
  /\ UNCHANGED engineVars

\* DMatrix<int> dst(std::move(src)): dst is a new object
MoveConstructDMatrix(dst, src) ==
  /\ Len(args) = 1
  /\ dst # src
  /\ LET s == args[1]
     IN args' = << [s EXCEPT ![dst] = DMatrixMove(s[src]),
                             ![src] = DMovedFrom(s[src]),
                             !.last = <<"DMatrix", dst, src>>,
                             !.prev = << [store |-> s.store, src |-> s[src]] >>] >>
  /\ UNCHANGED <<task, oclTask, cache, ctx, dmat, thr>>
  /\ UNCHANGED engineVars

\* dst = std::move(src) on device matrices
MoveAssignDMatrix(dst, src) ==
  /\ Len(args) = 1
  /\ LET s == args[1]
     IN args' = << [s EXCEPT ![dst] = IF dst # src THEN DMatrixMove(s[src]) ELSE @,
                             ![src] = IF dst # src THEN DMovedFrom(s[src]) ELSE @,
                             !.last = <<"DMatrix", dst, src>>,
                             !.prev = << [store |-> s.store, src |-> s[src]] >>] >>
  /\ UNCHANGED <<task, oclTask, cache, ctx, dmat, thr>>
  /\ UNCHANGED engineVars

\* Matrix<T>::operator=(const Matrix<T>& m), this # &m, with the heap after
\* T* ptr = new T[rows_ * cols_]; std::copy(...): data_.reset(ptr, ...)
MatrixCopyAssign(store, m) ==
  [rows |-> m.rows, cols |-> m.cols, data |-> ArrayOver(store, Len(store))]

\* dst = src; with dst and src the same object nothing happens
CopyAssignMatrix(dst, src) ==
  /\ Len(args) = 1
  /\ dst # src
  /\ Len(args[1].store) < MaxArrays
  /\ LET s == args[1]
         store == Append(s.store, MatrixElems(s.store, s[src]))
     IN args' = << [s EXCEPT !.store = store,
                             ![dst] = MatrixCopyAssign(store, s[src]),
                             !.last = <<>>, !.prev = <<>>] >>
  /\ UNCHANGED <<task, oclTask, cache, ctx, dmat, thr>>
  /\ UNCHANGED engineVars

\* x(i, j) = v: T& operator()(i, j) is data_[i * cols_ + j]
StoreMatrixElement(x, i, j, v) ==
  /\ Len(args) = 1
  /\ LET s == args[1]
         k == i * s[x].cols + j
     IN /\ i < s[x].rows /\ j < s[x].cols
        /\ ElementAt(s.store, s[x].data, k) # v
        /\ args' = << [s EXCEPT !.store[s[x].data.sptr][k + 1] = v,
                                !.last = <<>>, !.prev = <<>>] >>
  /\ UNCHANGED <<task, oclTask, cache, ctx, dmat, thr>>
  /\ UNCHANGED engineVars

\* the elements of the rows x cols matrix with elements `elems`, transposed:
\* new_data[j * rows_ + i] = data_[i * cols_ + j]
Transposed(elems, rows, cols) ==
  [k \in 1..(rows * cols) |->
     LET j == (k - 1) \div rows
         i == (k - 1) % rows
     IN elems[i * cols + j + 1]]

\* the matrix after its data_ is assigned a new array with elements `elems`
\* (data_ = new_data, shared_array::operator=): the new array is taken, the
\* heap then being the old one with it, unless it equals the array data_ has
AssignNewArray(s, x, rows, cols, elems) ==
  LET store == Append(s.store, elems)
      data == ArrayAssign(store, s[x].data, ArrayOver(store, Len(store)))
      taken == data.sptr = Len(store)
  IN [s EXCEPT !.store = IF taken THEN store ELSE s.store,
               ![x] = [rows |-> rows, cols |-> cols, data |-> data],
               !.last = <<>>, !.prev = <<>>]

\* x.transpose(): shared_array<T> new_data(rows_ * cols_) gets the elements
\* in transposed order; std::swap(rows_, cols_); data_ = new_data
TransposeMatrix(x) ==
  /\ Len(args) = 1
  /\ Len(args[1].store) < MaxArrays
  /\ LET s == args[1]
         t == Transposed(MatrixElems(s.store, s[x]), s[x].rows, s[x].cols)
     IN args' = << AssignNewArray(s, x, s[x].cols, s[x].rows, t) >>
  /\ UNCHANGED <<task, oclTask, cache, ctx, dmat, thr>>
  /\ UNCHANGED engineVars

\* x.resize(rows, cols): rows_ = rows; cols_ = cols;
\* data_ = shared_array<T>(rows * cols), a new array nothing has written:
\* elems is what its memory happens to hold
ResizeMatrix(x, shape, elems) ==
  /\ Len(args) = 1
  /\ Len(args[1].store) < MaxArrays
  /\ Len(elems) = shape[1] * shape[2]
  /\ args' = << AssignNewArray(args[1], x, shape[1], shape[2], elems) >>
  /\ UNCHANGED <<task, oclTask, cache, ctx, dmat, thr>>
  /\ UNCHANGED engineVars

\* the shapes a matrix over n elements can have
ShapesOf(n) == {s \in Shapes : s[1] * s[2] = n}

\* Matrix(rows, cols, array) over the array allocated at p, or Matrix()
MatricesOver(store, p) ==
  IF p = 0 THEN {EmptyMatrix}
  ELSE {[rows |-> s[1], cols |-> s[2], data |-> ArrayOver(store, p)] :
          s \in ShapesOf(Len(store[p]))}

\* DMatrix(rows, cols) with buffer b, or DMatrix()
DMatricesOver(b) ==
  IF b = 0 THEN {EmptyDMatrix}
  ELSE {[rows |-> s[1], cols |-> s[2], buffer |-> b] : s \in Shapes \ {<<0, 0>>}}

\* a program of host matrices, m1 built over the first array and m2 empty,
\* sharing the first array or having the second; or a program of device
\* matrices, d1 having a buffer and d2 being empty or having another
InitMoves ==
  /\ \/ \E s1 \in SeqsUpTo(InputVals, MaxLen), s2 \in SeqsUpTo(InputVals, MaxLen) :
          \E p2 \in 0..2 :
            \E m1 \in MatricesOver(<<s1, s2>>, 1), m2 \in MatricesOver(<<s1, s2>>, p2) :
              /\ Len(s1) > 0
              /\ args = << MoveProgram(<<s1, s2>>, m1, m2, EmptyDMatrix, EmptyDMatrix) >>
     \/ \E b2 \in {0, 2} :
          \E d1 \in DMatricesOver(1), d2 \in DMatricesOver(b2) :
            args = << MoveProgram(<< <<>>, <<>> >>, EmptyMatrix, EmptyMatrix, d1, d2) >>
  /\ task = NoTask
  /\ oclTask = NoOclTask
  /\ cache = NoCache
  /\ ctx = NoCtx
  /\ dmat = NoDMatrix
  /\ thr = NoThread
  /\ EngineIdle

NextMoves ==
  \/ \E dst \in MatrixVars, src \in MatrixVars : MoveConstructMatrix(dst, src)
  \/ \E dst \in MatrixVars, src \in MatrixVars : MoveAssignMatrix(dst, src)
  \/ \E dst \in MatrixVars, src \in MatrixVars : CopyAssignMatrix(dst, src)
  \/ \E x \in MatrixVars, i \in 0..(MaxLen - 1), j \in 0..(MaxLen - 1) :
       \E v \in InputVals : StoreMatrixElement(x, i, j, v)
  \/ \E x \in MatrixVars : TransposeMatrix(x)
  \/ \E x \in MatrixVars, shape \in Shapes :
       \E elems \in SeqsUpTo(InputVals, MaxLen) : ResizeMatrix(x, shape, elems)
  \/ \E dst \in DMatrixVars, src \in DMatrixVars : MoveConstructDMatrix(dst, src)
  \/ \E dst \in DMatrixVars, src \in DMatrixVars : MoveAssignDMatrix(dst, src)

SpecMoves == InitMoves /\ [][NextMoves]_vars

\* ============================================================ properties
\* the data of the arguments of `as` that satisfy Test, in their original order
SubsequenceData(as, Test(_)) ==
  LET sel == SelectSeq(as, Test) IN [k \in 1..Len(sel) |-> sel[k].data]

IsInArg(a) == a.io = "IN"

\* kernel parameter i-1 was bound to argument i, once, for every i in 1..N
BoundInOrder(kargs, as) ==
  /\ Len(kargs) = Len(as)
  /\ \A i \in 1..Len(as) : kargs[i] = <<i - 1, as[i].data>>

\* C8: for every argument list and every mix of kinds, the argument at
\* position i (0-based) is bound to kernel parameter i; nothing is reordered,
\* skipped or bound twice (Task::SetArg and OpenCLQueue::SetKernelArgs).
C8_PositionalBinding ==
  /\ task.built => BoundInOrder(task.kargs, args)
  /\ oclTask.built => BoundInOrder(oclTask.kargs, args)

C8_Witness ==
  /\ oclTask.built
  /\ Len(args) >= 3
  /\ args[1].io = "LOCALE" /\ args[2].io = "VAR" /\ args[3].io = "IN_OUT"
  /\ oclTask.kargs[3] = <<2, 3>>

\* C9: the read-back (output) list, Task::output() and the tuple built by
\* ComposeOutTuple in an AddTask call that returns its handle, is exactly the
\* subsequence of arguments tagged OUT or IN_OUT, each once, in their
\* original relative order.
C9_OutputSubsequence ==
  /\ task.built => task.output = SubsequenceData(args, IsOutArg)
  /\ oclTask.returned => oclTask.tuple = SubsequenceData(args, IsOutArg)

C9_Witness ==
  /\ task.built /\ oclTask.returned
  /\ Len(args) >= 3
  /\ args[1].io = "IN_OUT" /\ args[2].io = "IN" /\ args[3].io = "OUT"
  /\ task.output = <<1, 3>> /\ oclTask.tuple = <<1, 3>>

\* C10 as stated: building a task descriptor adds every buffer argument (IN,
\* IN_OUT, OUT) to the binding list buffers_, adds OUT and IN_OUT additionally
\* to the read-back list output_, and adds LOCALE / VAR arguments to neither.
C10_AllBuffersInBindingList ==
  task.built =>
    /\ task.buffers = SubsequenceData(args, IsBufferArg)
    /\ task.output = SubsequenceData(args, IsOutArg)

\* C10 amended: Task::SetArg adds an IN buffer to the binding list buffers_
\* and an OUT / IN_OUT buffer to the read-back list output_ only, not to the
\* binding list, and nothing else to either list; OpenCLQueue::SetKernelArgs
\* adds every buffer argument (IN, IN_OUT, OUT) to its one buffers vector and
\* its LOCALE and VAR arguments to none.
C10_DirectionPartition ==
  /\ task.built =>
       /\ task.buffers = SubsequenceData(args, IsInArg)
       /\ task.output = SubsequenceData(args, IsOutArg)
  /\ oclTask.built =>
       oclTask.buffers = SubsequenceData(args, IsBufferArg)

C10_Witness ==
  /\ task.built /\ oclTask.built
  /\ Len(args) >= 3
  /\ args[1].io = "IN" /\ args[2].io = "IN_OUT" /\ args[3].io = "OUT"
  /\ task.buffers = <<1>> /\ task.output = <<2, 3>>
  /\ oclTask.buffers = <<1, 2, 3>>

\* ------------------------------------------------------------ synchronisation
Cmds == 1..Len(cmds)
Futs == 1..Len(futs)

\* the device has begun executing command c
Started(c) == cmds[c].st \in {"running", "done"}

\* a handle with a valid completion signal
Pending(f) == futs[f].event # 0 /\ futs[f].is_event_set

\* the handle returned by the call that submitted command c is alive
HandleAlive(c) ==
  \E f \in Futs : futs[f].live /\ futs[f].call = cmds[c].call

\* C1: an operation that was handed the completion handle of an earlier
\* operation as a dependency never reads its inputs while that handle's
\* signal is unfired (stale records such a read).
C1_DependencyReadAfterSignal ==
  \A c \in Cmds : cmds[c].deps # {} => ~cmds[c].stale

\* C2: as long as the handle returned by the launching call is alive, every
\* host block an unfinished command of that call reads or writes is alive.
C2_InFlightStorageAlive ==
  \A c \in Cmds :
    Unfinished(c) /\ HandleAlive(c) => \A a \in CmdHostBlocks(c) : HostAlive(a)

\* C3: get() or wait() on a handle with a valid signal has returned only if
\* the signal has fired, and the thread blocked in it is not let go before.
C3_NoReturnBeforeSignal ==
  \A f \in Futs : Pending(f) /\ futs[f].waited => EventFired(futs[f].event)

C3_Witness ==
  \E f \in Futs :
    /\ Pending(f) /\ futs[f].waited /\ futs[f].cls = "future"
    /\ host.st = "idle"
    /\ EventFired(futs[f].event)

\* C4: once get() or wait() on the handle returned by OpenCLQueue::AddTask
\* has returned, every read-back of that call is complete and each OUT /
\* IN_OUT host array held what the kernel left in that argument's buffer.
C4_ReadBackComplete ==
  \A f \in Futs : futs[f].holds = "tuple" /\ futs[f].waited =>
    \A c \in Cmds : cmds[c].kind = "read" /\ cmds[c].call = futs[f].call =>
      /\ cmds[c].st = "done"
      /\ \A k \in 1..Len(futs[f].arrs) :
           futs[f].arrs[k] = cmds[c].arr =>
             futs[f].seen[k] = [def |-> dbuf[cmds[c].own].def,
                                val |-> dbuf[cmds[c].own].val]

\* C5: no read-back submitted by an AddTask call has begun executing unless
\* the kernel invocation submitted by the same call is complete.
C5_ReadBackAfterKernel ==
  \A c \in Cmds, k \in Cmds :
    /\ cmds[c].kind = "read" /\ cmds[k].kind = "kernel"
    /\ cmds[c].call = cmds[k].call
    /\ Started(c)
    => cmds[k].st = "done"

C5_Witness ==
  \E c \in Cmds, k \in Cmds :
    /\ cmds[c].kind = "read" /\ cmds[k].kind = "kernel"
    /\ cmds[c].call = cmds[k].call /\ cmds[c].q = "ocl"
    /\ cmds[c].waits = {}
    /\ cmds[c].st = "running" /\ cmds[k].st = "done"

\* C6: of two commands submitted through the same queue object, the later
\* one has begun executing only if the earlier one is complete, whether or
\* not the later one was given a wait-list.
C6_SubmissionOrder ==
  \A i \in Cmds, j \in Cmds :
    i < j /\ cmds[i].q = cmds[j].q /\ Started(j) => cmds[i].st = "done"

C6_Witness ==
  \E i \in Cmds, j \in Cmds :
    /\ i < j /\ cmds[i].q = "queue" /\ cmds[j].q = "queue"
    /\ cmds[i].call # cmds[j].call
    /\ cmds[j].waits = {}
    /\ cmds[j].st = "running" /\ cmds[i].st = "done"

\* C7: the host arrays of a handle that was destroyed without get() or wait()
\* having returned stay alive until the handle's signal has fired.
C7_DroppedHandleKeepsStorage ==
  \A f \in Futs :
    /\ ~futs[f].live /\ ~futs[f].waited
    /\ Pending(f) /\ ~EventFired(futs[f].event)
    => \A a \in SeqRange(futs[f].arrs) : HostAlive(a)

\* ============================================================ program cache properties
\* C11: once a (path, options) pair has been built successfully, a later
\* request for the same pair performs no build and gets its kernel from the
\* program that was built for that pair.
C11_BuiltAtMostOnce ==
  cache.last.wasOk =>
    /\ ~cache.last.built
    /\ cache.last.result = "ok"
    /\ cache.last.kernelOf = cache.last.pair

C11_Witness ==
  /\ cache.nreq >= 2
  /\ cache.last.wasOk
  /\ ~cache.last.built
  /\ cache.last.kernelOf = cache.last.pair

\* C12: a request for a (path, options) pair that was never requested before
\* does not hit the cache entry of another pair: it runs its own build, and
\* the kernel it returns comes from the program of its own pair.
C12_DistinctPairsDistinctPrograms ==
  cache.last.fresh =>
    /\ cache.last.built
    /\ cache.last.result = "ok" => cache.last.kernelOf = cache.last.pair

\* C13: a request whose build fails leaves the program cache exactly as it
\* was (no entry under the failed key, none under any other key), and the
\* next request for a pair whose latest build failed builds again.
C13_FailedBuildLeavesNoEntry ==
  /\ BuildFailed(cache.last) => cache.programs = cache.last.before
  /\ cache.last.wasFailed => cache.last.built

\* C14: a request creates a new kernel handle only on the first
\* use of its (program, entry point) pair or when it built the program
\* itself; otherwise the handle created earlier is reused.
C14_KernelCreatedOnce ==
  cache.last.newKernel => (cache.last.built \/ ~cache.last.usedBefore)

\* C15: when the build fails, the caller gets the build failure with the
\* build log of the program that failed inside the error; no other error is
\* raised and no other program's log is read.
C15_BuildFailureCarriesLog ==
  BuildFailed(cache.last) =>
    /\ cache.last.err = "build_failure"
    /\ cache.last.logOf = cache.last.pair
    /\ cache.last.logIn = "error"

\* ============================================================ handle properties
\* a handle built from a value alone: cl_future(const T& data)
Immediate(f) == futs[f].cls = "cl_future" /\ ~futs[f].is_event_set

\* C16: wait() and get() on an Immediate handle never block on a device
\* signal and never fail, and what get() / wait() returns with is the stored
\* value, which is a value the caller wrote as long as the caller has not
\* edited a matrix (resize leaves a matrix unwritten).
C16_ImmediateReturnsAtOnce ==
  /\ host.st \in {"blocked", "failed"} => ~Immediate(host.f)
  /\ \A f \in Futs :
       Immediate(f) /\ futs[f].waited =>
         /\ futs[f].seen = Seen(f)
         /\ host.edits = 0 =>
              \A k \in 1..Len(futs[f].seen) : futs[f].seen[k].def

C16_Witness ==
  \E f \in Futs :
    /\ Immediate(f)
    /\ futs[f].waited
    /\ futs[f].seen = << Val(FillVal + 1) >>

\* an oclalgo::future that holds a default cl::Event
NullSignal(f) == futs[f].cls = "future" /\ futs[f].event = 0

\* C17: get() / wait() on an oclalgo::future without a valid signal never
\* blocks and never returns; the call fails with CL_INVALID_EVENT and leaves
\* the handle as it was.
C17_NullSignalFails ==
  /\ host.st = "blocked" => ~NullSignal(host.f)
  /\ \A f \in Futs : NullSignal(f) => ~futs[f].waited
  /\ host.st = "failed" => NullSignal(host.f) /\ host.err = "CL_INVALID_EVENT"

C17_Witness ==
  /\ host.st = "failed"
  /\ host.err = "CL_INVALID_EVENT"
  /\ NullSignal(host.f)
  /\ \E d \in Futs : futs[d].from = host.f

\* C18: a move-constructed handle starts out owning exactly what its source
\* owned (result, kept-alive buffers, signal), and the source is left empty:
\* no result, no buffers, no valid signal.
C18_MoveTransfersOwnership ==
  \A d \in Futs :
    futs[d].from # 0 =>
      LET pre == futs[d].moved[1]
          post == futs[d].moved[2]
          dst == futs[d].moved[3]
      IN /\ dst = pre
         /\ post.arrs = <<>>
         /\ post.bufs = <<>>
         /\ post.event = 0

\* a step in which a call of get() / wait() on handle f returns to the caller
CallReturns(f, op) ==
  \/ FutureReturn /\ host.f = f /\ host.op = op
  \/ FutureCall(f, op) /\ ~NeedsWait(f) /\ ~NullEventThrows(f)

\* a handle with a valid signal that has given its result away
Consumed(f) ==
  /\ futs[f].cls = "future"
  /\ futs[f].event # 0
  /\ futs[f].arrs = <<>>
  /\ futs[f].bufs = <<>>

\* C19: when get() returns, the handle is left without the result, and no
\* get() or wait() returns successfully on a handle whose result has been
\* taken.
C19_SingleConsumption ==
  [][\A f \in Futs :
       /\ CallReturns(f, "get") => futs'[f].arrs = <<>> /\ futs'[f].bufs = <<>>
       /\ Consumed(f) => ~(CallReturns(f, "get") \/ CallReturns(f, "wait"))]_vars

\* ============================================================ termination
\* C20: under a fair device every command whose submission returned
\* eventually completes, whatever happens to its handle, and every get() /
\* wait() that blocks eventually returns.
C20_SubmittedCompletes ==
  /\ \A c \in 1..(MaxCalls * MaxArgs) :
       (c <= Len(cmds) /\ host.st # "crashed")
         ~> (c <= Len(cmds) /\ cmds[c].st = "done")
  /\ (host.st = "blocked") ~> (host.st = "idle")

\* ============================================================ device resolution properties
\* two characters that are the same letter in either case
SameLetter(c1, c2) ==
  \/ c1 = c2
  \/ {c1, c2} \in {{"a", "A"}, {"b", "B"}}

\* name contains pat as a substring, letter case ignored
MatchesIgnoringCase(name, pat) ==
  \E i \in 0..(Len(name) - Len(pat)) :
    \A k \in 1..Len(pat) : SameLetter(name[i + k], pat[k])

\* C21: a queue constructed from names selects a platform and a device whose
\* names contain the patterns ignoring case, and a platform or device whose
\* name contains the pattern ignoring case is never reported as not found.
C21_CaseInsensitiveSubstring ==
  ctx.last.kind = "name" =>
    LET p == ctx.last.platform_id + 1
        d == ctx.last.device_id + 1
    IN /\ ctx.last.out = "ok" =>
            /\ MatchesIgnoringCase(ctx.env[p].name, ctx.pl)
            /\ MatchesIgnoringCase(ctx.env[p].devices[d], ctx.dev)
       /\ ctx.last.out = "CL_INVALID_PLATFORM" =>
            \A i \in 1..Len(ctx.env) : ~MatchesIgnoringCase(ctx.env[i].name, ctx.pl)
       /\ ctx.last.out = "CL_INVALID_DEVICE" =>
            \A j \in 1..Len(ctx.env[p].devices) :
              ~MatchesIgnoringCase(ctx.env[p].devices[j], ctx.dev)

\* the first position of list whose entry contains pat ignoring case, 0 if none
FirstMatch(list, Name(_), pat) ==
  FindIf(list, LAMBDA x : MatchesIgnoringCase(Name(x), pat))

PlatformName(platform) == platform.name

DeviceName(device) == device

\* C22: a queue constructed from names selects the first platform that
\* matches and the first device of that platform that matches; it fails with
\* a platform error when no platform matches and with a device error when
\* the first matching platform has no matching device, whatever later
\* platforms hold; a failed construction selects no device.
C22_FirstMatchWins ==
  ctx.last.kind = "name" =>
    LET p == FirstMatch(ctx.env, PlatformName, ctx.pl)
        d == IF p = 0 THEN 0 ELSE FirstMatch(ctx.env[p].devices, DeviceName, ctx.dev)
    IN IF p = 0 THEN ctx.last.out = "CL_INVALID_PLATFORM" /\ ctx.last.device_id = -1
       ELSE IF d = 0
       THEN /\ ctx.last.out \in {"CL_INVALID_DEVICE", "CL_DEVICE_NOT_FOUND"}
            /\ ctx.last.device_id = -1
       ELSE /\ ctx.last.out = "ok"
            /\ ctx.last.platform_id = p - 1
            /\ ctx.last.device_id = d - 1


\* C23: a queue constructed from indices succeeds exactly when both indices
\* denote enumerated entries and then selects those entries; every other pair
\* fails with CL_INVALID_PLATFORM (platform index) or CL_INVALID_DEVICE
\* (device index), and no element outside the enumerated lists is read.
C23_IndexInRange ==
  ctx.last.kind = "index" =>
    LET pok == ctx.pi \in 0..(Len(ctx.env) - 1)
        dok == pok /\ ctx.di \in 0..(Len(ctx.env[ctx.pi + 1].devices) - 1)
    IN /\ ~ctx.last.oob
       /\ IF ~pok THEN ctx.last.out = "CL_INVALID_PLATFORM"
          ELSE IF ~dok THEN ctx.last.out = "CL_INVALID_DEVICE"
          ELSE /\ ctx.last.out = "ok"
               /\ ctx.last.platform_id = ctx.pi
               /\ ctx.last.device_id = ctx.di


\* ============================================================ element-wise add
\* the host array behind argument i of the pack of call n
PackArray(n, i) ==
  IF host.api = "Queue" THEN dbuf[args[n][i].data].hostptr ELSE args[n][i].data

\* what get() on the handle of call n hands over as the output: the host
\* array c (OpenCLQueue), the device buffer of c_arg (Queue)
PackOutput(n) ==
  IF host.api = "Queue"
  THEN [def |-> dbuf[args[n][3].data].def, val |-> dbuf[args[n][3].data].val]
  ELSE BlockRead(harr, args[n][3].data)

\* C24: after the element-wise add kernel was dispatched on (IN a, IN b,
\* OUT c) and get() has returned, c holds a + b; a and b hold what the caller
\* stored in them, at every moment.
C24_ElementwiseAdd ==
  /\ \A n \in 1..Len(args) : \A i \in 1..2 :
       BlockRead(harr, PackArray(n, i)) = Val(args[n][i].sval)
  /\ \A f \in 1..Len(futs) :
       futs[f].waited => PackOutput(futs[f].call) =
                           Val(args[futs[f].call][1].sval + args[futs[f].call][2].sval)

C24_Witness ==
  \E f \in 1..Len(futs) :
    /\ futs[f].waited
    /\ args[futs[f].call][1].sval = 1
    /\ args[futs[f].call][2].sval = 1
    /\ PackOutput(futs[f].call) = Val(2)
    /\ ncalls = MaxCalls


\* ============================================================ element counts
\* the dispatches made so far that returned a handle
Dispatched == {futs[f].call : f \in 1..Len(futs)}

\* what get() on the handle of copy dispatch n hands over as the output
CopyOutput(n) ==
  IF host.api = "Queue"
  THEN [def |-> dbuf[args[n][2].data].def, val |-> dbuf[args[n][2].data].val]
  ELSE BlockRead(harr, args[n][2].data)

\* C25: a copy dispatch on arrays of any element count, 0 included, does not
\* fail and returns a handle; get() on it yields the copied content
\* (nothing for element count 0, the single element for element count 1).
C25_EmptyDispatchSucceeds ==
  /\ host.st # "failed"
  /\ \A n \in 1..Len(args) : n \in Dispatched
  /\ \A f \in 1..Len(futs) :
       futs[f].waited /\ args[futs[f].call][1].size > 0 =>
         CopyOutput(futs[f].call) = Val(args[futs[f].call][1].sval)


\* ============================================================ round trip
\* the last load of the device matrix has returned: a synchronous one is
\* over, the handle of an asynchronous one has been waited for
LoadComplete ==
  /\ dmat.made
  /\ dmat.m # 0
  /\ host.op # "UpdateData"
  /\ dmat.h = 0 \/ futs[dmat.h].waited

\* ToHost() has returned matrix r, or get() on the handle of
\* ToHost(Unblock) has
ToHostReturned(r) ==
  \/ harr[r].ret
  \/ \E f \in 1..Len(futs) :
       /\ futs[f].waited
       /\ \E c \in 1..Len(cmds) :
            cmds[c].call = futs[f].call /\ cmds[c].kind = "read" /\ cmds[c].arr = r

\* C26: no load of the device matrix from a host matrix fails, no ToHost of
\* a loaded device matrix fails and, once the device matrix
\* has been loaded from host matrix m (constructor or UpdateData, on a device
\* matrix of any shape), it has the shape of m and every matrix ToHost
\* returns for that load has the shape and the content of m.
C26_RoundTripIdentity ==
  /\ host.st = "failed" => /\ host.op \notin {"DMatrix", "UpdateData"}
                           /\ host.op = "ToHost" => dmat.m = 0
  /\ LoadComplete /\ harr[dmat.m].user /\ ~dmat.edited =>
       /\ dmat.rows = harr[dmat.m].rows
       /\ dmat.cols = harr[dmat.m].cols
       /\ \A r \in 1..Len(harr) :
            harr[r].load = dmat.load /\ ToHostReturned(r) =>
              /\ harr[r].rows = harr[dmat.m].rows
              /\ harr[r].cols = harr[dmat.m].cols
              /\ BlockRead(harr, r) = BlockRead(harr, dmat.m)


\* ============================================================ threads
\* the buffers bound to the OUT / IN_OUT parameters of kernel command c, in
\* parameter order
OutputBuffers(c) ==
  LET ps == SelectSeq(cmds[c].params, LAMBDA p : p.io \in {"OUT", "IN_OUT"})
  IN [k \in 1..Len(ps) |-> ps[k].buf]

\* C27: get() called by a second thread on a handle returned by
\* Queue::EnqueueTask, while the enqueuing thread goes on, does not fail,
\* returns only once the task's completion signal has fired and returns the
\* task's output buffers, which the kernel has written.
C27_ConsumeOnOtherThread ==
  /\ thr.st # "failed"
  /\ thr.st = "done" =>
       /\ EventFired(futs[thr.f].event)
       /\ thr.out = OutputBuffers(futs[thr.f].event)
       /\ \A k \in 1..Len(thr.out) : dbuf[thr.out[k]].def

C27_Witness ==
  /\ thr.st = "done"
  /\ thr.out # <<>>
  /\ host.st = "blocked"
  /\ \E c \in 1..Len(cmds) : cmds[c].call > futs[thr.f].call


\* ============================================================ aliased storage
\* cl::Buffer b is still referenced: by a BufferArg or DMatrix of the caller,
\* by a live handle, or by a command that is not complete
BufferExists(b) ==
  \/ dbuf[b].user
  \/ \E f \in 1..Len(futs) : futs[f].live /\ b \in SeqRange(futs[f].bufs)
  \/ \E c \in 1..Len(cmds) : Unfinished(c) /\ b \in CmdBuffers(c)

\* C28: while a device buffer created over a host array (CL_MEM_USE_HOST_PTR)
\* exists, the storage of that array has not been freed.
C28_AliasedStorageAlive ==
  \A b \in 1..Len(dbuf) :
    dbuf[b].hostptr # 0 /\ BufferExists(b) => HostAlive(dbuf[b].hostptr)


\* ============================================================ read-back source
\* C29: every read-back AddTask issues for an OUT / IN_OUT argument copies
\* from the buffer that was created for that argument and bound to its kernel
\* parameter, whatever kinds of arguments precede it.
C29_ReadBackFromOwnBuffer ==
  oclTask.built =>
    \A k \in 1..Len(oclTask.reads) :
      /\ oclTask.reads[k].idx \in 1..Len(oclTask.buffers)
      /\ oclTask.buffers[oclTask.reads[k].idx] = oclTask.reads[k].dst


\* ============================================================ completion signal
\* the commands dispatching call n submitted
CallCmds(n, kind) == {c \in 1..Len(cmds) : cmds[c].call = n /\ cmds[c].kind = kind}

\* C30: the event stored in the handle a dispatch returned is that of the
\* last read-back the dispatch submitted, and that of its kernel invocation
\* when it submitted no read-back.
C30_SignalOfLastCommand ==
  \A f \in 1..Len(futs) :
    LET ks == CallCmds(futs[f].call, "kernel")
        rs == CallCmds(futs[f].call, "read")
    IN ks # {} =>
         /\ futs[f].is_event_set
         /\ futs[f].event \in (IF rs = {} THEN ks ELSE rs)
         /\ \A c \in rs : c <= futs[f].event

C30_Witness ==
  \E f \in 1..Len(futs) :
    /\ Cardinality(CallCmds(futs[f].call, "read")) = 2
    /\ futs[f].event \in CallCmds(futs[f].call, "read")
    /\ futs[f].event - 1 \in CallCmds(futs[f].call, "read")
    /\ \E g \in 1..Len(futs) :
         /\ CallCmds(futs[g].call, "read") = {}
         /\ futs[g].event \in CallCmds(futs[g].call, "kernel")

\* ============================================================ wait-lists
\* the completion signals of the dependencies of a call, each once, in
\* argument order
RECURSIVE SignalsOf(_)
SignalsOf(deps) ==
  IF deps = <<>> THEN <<>>
  ELSE [k \in 1..Len(Head(deps).of) |-> futs[Head(deps).of[k]].event]
       \o SignalsOf(Tail(deps))

\* C31: every EnqueueTask call submits its kernel, and the wait-list it
\* passes holds exactly the completion signals of the dependencies given as
\* extra arguments (handles, events, collections of either), each once, in
\* argument order; with no extra argument the wait-list is absent.
C31_WaitListFromDependencies ==
  \A n \in 1..Len(args) :
    /\ args[n].linked
    /\ args[n].events = SignalsOf(args[n].deps)
    /\ args[n].pevents = (args[n].deps # <<>>)
    /\ \E c \in Cmds :
         /\ cmds[c].call = n
         /\ cmds[c].kind = "kernel"
         /\ cmds[c].waits = SeqRange(args[n].events)

\* ============================================================ directional arguments
\* C32: the direction of a directional argument is the one it was
\* constructed with, and in a task built from it IN pairs with a read-only
\* buffer, IN_OUT with a read-write buffer, OUT with a write-only buffer that
\* was not created over host memory, and the argument's buffer is in the
\* task's read-back list exactly when its direction is OUT or IN_OUT.
C32_DirectionAgreesWithBuffer ==
  \A k \in 1..Len(args) :
    /\ args[k].io = args[k].made
    /\ task.built =>
         /\ args[k].io = "IN" => args[k].access = "ReadOnly"
         /\ args[k].io = "IN_OUT" => args[k].access = "ReadWrite"
         /\ args[k].io = "OUT" =>
              args[k].access = "WriteOnly" /\ ~args[k].populated
         /\ (args[k].data \in SeqRange(task.output))
              <=> args[k].io \in {"OUT", "IN_OUT"}

\* ============================================================ byte sizes
\* C33: every device buffer allocated for an array of n elements of width
\* sizeof(T) has n * sizeof(T) bytes and every transfer to or from it moves
\* n * sizeof(T) bytes, the output buffer of the DMatrix operators included.
C33_ByteSizes ==
  \A k \in 1..Len(args) : args[k].bytes = args[k].n * args[k].w

\* ============================================================ asynchronous copies
\* handle f was returned by a host-to-device copy that has not completed
WriteInFlight(f) ==
  /\ futs[f].event # 0
  /\ cmds[futs[f].event].kind = "write"
  /\ ~EventFired(futs[f].event)

\* C34: while the handle of an asynchronous host-to-device copy exists and
\* the copy's signal has not fired, the handle holds the source host array
\* and the array's storage is alive, whatever the caller has dropped.
C34_WriteHandleKeepsSource ==
  \A f \in Futs :
    futs[f].live /\ WriteInFlight(f) =>
      /\ cmds[futs[f].event].arr \in SeqRange(futs[f].arrs)
      /\ HostAlive(cmds[futs[f].event].arr)


\* ------------------------------------------------------------ C35
\* C35: for host matrices a, b and c, (a.future() + b.future()) * c.future()
\* dispatches the multiplication with a valid work-group size, the
\* multiplication reads the completed sum, and get() on the result yields
\* (a + b) * c.
C35_ChainedProduct ==
  \A n \in 1..Len(args) :
    args[n].op = "matrix_mul" /\ args[n].lhs # 0 =>
      /\ args[n].err = "ok"
      /\ \A c \in 1..Len(cmds) :
           cmds[c].call = n /\ cmds[c].kind = "kernel" => ~cmds[c].stale
      /\ \A f \in 1..Len(futs) :
           futs[f].call = n /\ futs[f].waited =>
             futs[f].seen = << Val(args[n].expect) >>


\* ------------------------------------------------------------ C36
\* call n of Queue::memcpy / DMatrix::ToHost(block) has returned to the caller
CopyReturned(n) == ~(host.st = "syncing" /\ host.f = args[n].cmd)

\* the handle call n returned, if it is one of the future-returning overloads
CopyHandles(n) ==
  {f \in 1..Len(futs) : futs[f].call = cmds[args[n].cmd].call
                        /\ futs[f].event = args[n].cmd}

\* the destination of copy command c holds what its source holds
CopyInPlace(c) ==
  IF cmds[c].kind = "read"
  THEN BlockRead(harr, cmds[c].arr) = BufferRead(cmds[c].buf)
  ELSE BufferRead(cmds[c].buf) = BlockRead(harr, cmds[c].arr)

\* C36: a synchronous memcpy, and a future-returning one called with
\* BlockingType::Block, has completed when it returns: the command is
\* complete, the returned handle's signal has fired and the destination holds
\* the source's data.  With BlockingType::Unblock the same is guaranteed once
\* wait() / get() on the handle has returned.
C36_BlockingCopyCompletes ==
  \A n \in 1..Len(args) :
    /\ args[n].block \in {"Sync", "Block"} /\ CopyReturned(n) =>
         /\ cmds[args[n].cmd].st = "done"
         /\ \A f \in CopyHandles(n) : EventFired(futs[f].event)
         /\ n = Len(args) => CopyInPlace(args[n].cmd)
    /\ args[n].block = "Unblock" =>
         \A f \in CopyHandles(n) :
           futs[f].waited =>
             /\ cmds[args[n].cmd].st = "done"
             /\ n = Len(args) => CopyInPlace(args[n].cmd)

\* a Block call has returned its handle with the copy complete, and an
\* Unblock call after it has returned while its copy is still in flight
C36_Witness ==
  /\ Len(args) = 2
  /\ args[1].block = "Block" /\ CopyHandles(1) # {}
  /\ cmds[args[1].cmd].st = "done"
  /\ harr[cmds[args[1].cmd].arr].def
  /\ args[2].block = "Unblock" /\ CopyHandles(2) # {}
  /\ cmds[args[2].cmd].st # "done"


\* ------------------------------------------------------------ C37
\* C37: after the assignment dst = src of two shared arrays, both refer to
\* the same storage and have the same element count (dst.get() = src.get(),
\* dst.size() = src.size()), whatever the two held before, and the assignment
\* copied no element: the heap is what it was.
C37_AssignmentShares ==
  \A n \in 1..Len(args) :
    args[n].last # <<>> =>
      /\ args[n][args[n].last[1]].sptr = args[n][args[n].last[2]].sptr
      /\ args[n][args[n].last[1]].size = args[n][args[n].last[2]].size
      /\ args[n].store = args[n].prev


\* ------------------------------------------------------------ C38
\* the kernels that have read their inputs
StartedKernels == {c \in 1..Len(cmds) : cmds[c].kind = "kernel" /\ cmds[c].st # "queued"}

\* C38: a kernel dispatched by AddTask reads, through every IN and IN_OUT
\* parameter, what the host array held when AddTask was called, also when the
\* caller has overwritten the array since; and the host array of an IN
\* argument holds what the caller stored in it last: the operation does not
\* write it.
C38_InputSnapshot ==
  /\ \A c \in StartedKernels :
       \A k \in 1..Len(cmds[c].params) :
         cmds[c].params[k].io \in {"IN", "IN_OUT"} =>
           cmds[c].ival[k] = Val(args[cmds[c].call][cmds[c].params[k].idx + 1].sval)
  /\ \A n \in 1..Len(args) :
       \A i \in 1..Len(args[n]) :
         args[n][i].io = "IN" =>
           BlockRead(harr, args[n][i].data) = Val(args[n][i].host)

\* the caller overwrote an input array while the kernel was queued, the
\* kernel has run since and its read-back is complete
C38_Witness ==
  \E c \in StartedKernels :
    /\ \E i \in 1..Len(args[cmds[c].call]) :
         /\ args[cmds[c].call][i].io = "IN"
         /\ args[cmds[c].call][i].host # args[cmds[c].call][i].sval
    /\ \A d \in 1..Len(cmds) : cmds[d].call = cmds[c].call => cmds[d].st = "done"
    /\ cmds[c].stale = FALSE


\* ------------------------------------------------------------ C39
\* the invocations AddTask has enqueued on the cached kernel object
Invocations ==
  {c \in 1..Len(cmds) : cmds[c].kind = "kernel" /\ cmds[c].q = "ocl"}

\* C39: every invocation AddTask enqueues runs with the arguments of its own
\* call, also when a later call has bound other arguments on the same cached
\* kernel object in the meantime: it reads the inputs its call passed and
\* leaves their sum in the output buffer its call created.
C39_OwnArguments ==
  \A c \in Invocations :
    /\ cmds[c].st # "queued" =>
         \A k \in 1..2 : cmds[c].ival[k] = Val(args[cmds[c].call][k].sval)
    /\ cmds[c].st = "done" =>
         BufferRead(cmds[c].params[3].buf) =
           Val(args[cmds[c].call][1].sval + args[cmds[c].call][2].sval)

\* two calls on the same kernel with different arguments: the shared kernel
\* object holds what the second call bound, and both invocations have run,
\* each on the inputs of its own call
C39_Witness ==
  /\ Len(args) = 2
  /\ \E c1 \in Invocations, c2 \in Invocations :
       /\ cmds[c1].call = 1 /\ cmds[c2].call = 2
       /\ cmds[c1].kname = cmds[c2].kname
       /\ BoundArgs(cache, KernelObjectId(AddTestProgram(cmds[c1].kname),
                                          cmds[c1].kname)) = cmds[c2].params
       /\ cmds[c1].params # cmds[c2].params
       /\ args[1][1].sval # args[2][1].sval
       /\ cmds[c1].st = "done" /\ cmds[c2].st = "done"
       /\ cmds[c1].ival # cmds[c2].ival


\* ------------------------------------------------------------ C40
\* the latest operation moved src into another object dst
MovedInto(s, kind) == s.last # <<>> /\ s.last[1] = kind /\ s.last[2] # s.last[3]

\* C40: after a move construction or move assignment of a Matrix or DMatrix,
\* the destination has the dimensions and contents the source had, and the
\* source is empty: rows() = 0, cols() = 0, an empty shared array or a null
\* buffer.
C40_MoveLeavesSourceEmpty ==
  \A n \in 1..Len(args) :
    LET s == args[n] IN
    /\ MovedInto(s, "Matrix") =>
         LET dst == s[s.last[2]]
             src == s[s.last[3]]
             was == s.prev[1].src
         IN /\ dst.rows = was.rows /\ dst.cols = was.cols
            /\ MatrixElems(s.store, dst) = MatrixElems(s.prev[1].store, was)
            /\ dst.data.size = was.data.size
            /\ src.rows = 0 /\ src.cols = 0
            /\ src.data = NullArray
    /\ MovedInto(s, "DMatrix") =>
         LET dst == s[s.last[2]]
             src == s[s.last[3]]
             was == s.prev[1].src
         IN /\ dst.rows = was.rows /\ dst.cols = was.cols
            /\ dst.buffer = was.buffer
            /\ src.rows = 0 /\ src.cols = 0
            /\ src.buffer = 0

\* a non-empty matrix was move-assigned to a matrix that held equal elements
\* in storage of its own
C40_Witness ==
  /\ Len(args) = 1
  /\ MovedInto(args[1], "Matrix")
  /\ LET s == args[1]
         was == s.prev[1].src
         dst == s[s.last[2]]
     IN /\ was.rows > 0
        /\ dst.data.sptr # 0
        /\ dst.data.sptr # was.data.sptr
        /\ dst.rows = was.rows /\ dst.cols = was.cols
        /\ s[s.last[3]].rows = 0
====
